---- MODULE Spec2Model ----
(***************************************************************************)
(* downwatch (lepinkainen/downwatch, main.go): a directory watcher that    *)
(* moves or copies newly arrived files to rule-determined destinations.    *)
(*                                                                         *)
(* The model follows main.go statement by statement.  A string is a        *)
(* sequence of one-character strings, a path is a record [dir, base], the  *)
(* filesystem is a directory table (path -> inode) plus the inodes' data,  *)
(* and every goroutine running handleFile is a task with a program counter *)
(* that advances one system call (or one run of local statements) at a     *)
(* time.  Every system call may fail.                                      *)
(***************************************************************************)
EXTENDS Integers, Sequences, FiniteSets, TLC

(***************************************************************************)
(* Bounds of the model.                                                    *)
(***************************************************************************)
\* largest size, in bytes, of a file that arrives in the watch directory
MaxSize == 1
\* the candidate counter of uniquePath and fileExistsWithSameSize stops
\* here; main.go:302 and main.go:332 stop at 10_000
Ceiling == 4
\* the deadline of waitUntilStable, in the model's time unit (5 minutes in
\* main.go:198)
Deadline == 5

(***************************************************************************)
(* Strings.                                                                *)
(***************************************************************************)
UpperLetters == <<"A", "B", "C", "D", "E", "F", "G", "H", "I", "J", "K", "L", "M",
                  "N", "O", "P", "Q", "R", "S", "T", "U", "V", "W", "X", "Y", "Z">>
LowerLetters == <<"a", "b", "c", "d", "e", "f", "g", "h", "i", "j", "k", "l", "m",
                  "n", "o", "p", "q", "r", "s", "t", "u", "v", "w", "x", "y", "z">>

\* strings.ToLower, one character
ToLowerCh(c) ==
    IF \E i \in 1..26 : UpperLetters[i] = c
    THEN LowerLetters[CHOOSE i \in 1..26 : UpperLetters[i] = c]
    ELSE c

\* strings.ToLower
ToLower(s) == [i \in 1..Len(s) |-> ToLowerCh(s[i])]

\* strings.EqualFold (ASCII)
EqualFold(a, b) == ToLower(a) = ToLower(b)

\* strings.HasPrefix
HasPrefix(s, p) == Len(p) <= Len(s) /\ SubSeq(s, 1, Len(p)) = p

\* strings.HasSuffix
HasSuffix(s, x) == Len(x) <= Len(s) /\ SubSeq(s, Len(s) - Len(x) + 1, Len(s)) = x

\* strings.TrimSuffix
TrimSuffix(s, x) == IF HasSuffix(s, x) THEN SubSeq(s, 1, Len(s) - Len(x)) ELSE s

\* strings.TrimPrefix
TrimPrefix(s, p) == IF HasPrefix(s, p) THEN SubSeq(s, Len(p) + 1, Len(s)) ELSE s

\* filepath.Ext: the suffix beginning at the final dot, empty if there is none
Ext(s) ==
    IF \E i \in 1..Len(s) : s[i] = "."
    THEN LET d == CHOOSE i \in 1..Len(s) :
                      s[i] = "." /\ \A j \in (i + 1)..Len(s) : s[j] # "."
         IN SubSeq(s, d, Len(s))
    ELSE <<>>

\* fmt.Sprintf("%d", i) for the one-digit counters the model reaches
Digits(i) == <<ToString(i)>>

\* fmt.Sprintf("%s (%d)%s", stem, i, ext) (main.go:303, main.go:333)
NumberedName(base, i) ==
    LET ext == Ext(base)
        stem == TrimSuffix(base, ext)
    IN stem \o <<" ", "(">> \o Digits(i) \o <<")">> \o ext

(***************************************************************************)
(* Paths.                                                                  *)
(***************************************************************************)
\* filepath.Join(dir, base)
Join(dir, base) == [dir |-> dir, base |-> base]

\* filepath.Base and filepath.Dir
Base(p) == p.base
Dir(p) == p.dir

\* dst + ".dup" (main.go:308)
DupPath(p) == Join(p.dir, p.base \o <<".", "d", "u", "p">>)

\* dst + ".tmp" (main.go:242)
TmpPath(p) == Join(p.dir, p.base \o <<".", "t", "m", "p">>)

(***************************************************************************)
(* Classifier (main.go:92-194).                                            *)
(***************************************************************************)
sTxt == <<"t", "x", "t">>
sDotPart == <<".", "p", "a", "r", "t">>
sTextPlain == <<"t", "e", "x", "t", "/", "p", "l", "a", "i", "n", ";", " ", "c", "h",
                "a", "r", "s", "e", "t", "=", "u", "t", "f", "-", "8">>
sOctet == <<"a", "p", "p", "l", "i", "c", "a", "t", "i", "o", "n", "/",
            "o", "c", "t", "e", "t", "-", "s", "t", "r", "e", "a", "m">>

\* mime.TypeByExtension for the extensions the model uses ("" when unknown)
TypeByExtension(ext) == IF ext = <<".">> \o sTxt THEN sTextPlain ELSE <<>>

\* http.DetectContentType on the first bytes of a file: text for empty data,
\* otherwise what the bytes look like (the model's files are opaque data)
DetectContentType(content) == IF content.len = 0 THEN sTextPlain ELSE sOctet

\* filepath.Match restricted to literals, '?' and '*'
RECURSIVE GlobMatch(_, _)
GlobMatch(pat, name) ==
    IF pat = <<>> THEN name = <<>>
    ELSE IF Head(pat) = "*"
         THEN \E k \in 0..Len(name) : GlobMatch(Tail(pat), SubSeq(name, k + 1, Len(name)))
         ELSE /\ name # <<>>
              /\ (Head(pat) = "?" \/ Head(pat) = Head(name))
              /\ GlobMatch(Tail(pat), Tail(name))

\* hasIgnoredExt (main.go:112)
hasIgnoredExt(base, ignores) ==
    \E ext \in {ToLower(Ext(base))} :
        \E i \in 1..Len(ignores) : EqualFold(ext, ignores[i])

\* a glob test that ignores letter case
anyPatternMatchFold(name, patterns) ==
    \E i \in 1..Len(patterns) : GlobMatch(ToLower(patterns[i]), ToLower(name))

\* anyPatternMatch (main.go:145)
anyPatternMatch(name, patterns) ==
    IF Len(patterns) = 0 THEN FALSE
    ELSE \E i \in 1..Len(patterns) : GlobMatch(patterns[i], name)

\* an extension test that compares letter for letter
extMatchesExact(name, exts) ==
    \E i \in 1..Len(exts) : exts[i] = TrimPrefix(Ext(name), <<".">>)

\* extMatches (main.go:158)
extMatches(name, exts) ==
    IF Len(exts) = 0 THEN FALSE
    ELSE \E ext \in {TrimPrefix(ToLower(Ext(name)), <<".">>)} :
             \E i \in 1..Len(exts) : EqualFold(exts[i], ext)

\* mimePrefixMatches (main.go:171)
mimePrefixMatches(mt, prefixes) ==
    IF Len(prefixes) = 0 \/ mt = <<>> THEN FALSE
    ELSE \E i \in 1..Len(prefixes) : HasPrefix(mt, prefixes[i])

\* the rule test of chooseRule's loop (main.go:189)
RuleMatches(r, base, mt) ==
    \/ anyPatternMatch(base, r.Patterns)
    \/ extMatches(base, r.Extensions)
    \/ mimePrefixMatches(mt, r.MIMEPrefixes)

\* a classifier that keeps looking after a match and returns the last one
chooseRuleLast(base, mt, rules) ==
    IF \E i \in 1..Len(rules) : RuleMatches(rules[i], base, mt)
    THEN CHOOSE i \in 1..Len(rules) :
             /\ RuleMatches(rules[i], base, mt)
             /\ \A j \in (i + 1)..Len(rules) : ~RuleMatches(rules[j], base, mt)
    ELSE 0

\* the loop of chooseRule from rule i on (main.go:187-193)
RECURSIVE chooseRuleFrom(_, _, _, _)
chooseRuleFrom(base, mt, rules, i) ==
    IF i > Len(rules) THEN 0
    ELSE IF RuleMatches(rules[i], base, mt) THEN i
    ELSE chooseRuleFrom(base, mt, rules, i + 1)

\* chooseRule (main.go:183): the index of the rule returned, 0 for nil
chooseRule(base, mt, rules) == chooseRuleFrom(base, mt, rules, 1)

(***************************************************************************)
(* State.                                                                  *)
(***************************************************************************)
VARIABLES
    cfg,         \* the Config main loaded (main.go:534); read-only afterwards
    dirs,        \* the directories that exist
    files,       \* the directory table: path -> inode
    data,        \* inode -> content [id, len, whole]
    processing,  \* the keys of the sync.Map processing (main.go:26)
    entries,     \* main: the ReadDir entries the startup scan has yet to handle
    watching,    \* main: the watcher is added, the event loop runs (main.go:565)
    pending,     \* the events the watcher has yet to deliver
    exited,      \* main: log.Fatal has ended the process (main.go:560, 565)
    pc,          \* task -> the statement of handleFile it executes next
    loc,         \* task -> handleFile's arguments and local variables
    wpc,         \* task -> position of davUpload's writer goroutine (main.go:371)
    done,        \* task -> davUpload's channel done (main.go:370), as a sequence
    sink,        \* the upload sink: the remote names written
    logs,        \* task -> the log lines the dispatch printed
    rivals       \* task -> the dispatches of the same path alive at its spawn

vars == <<cfg, dirs, files, data, processing, entries, watching, pending, exited,
          pc, loc, wpc, done, sink, logs, rivals>>

\* the watch directory and the destination directory of the rules
WatchDir == "watch"
OutDir == "out"

\* the file names that arrive in the watch directory
fA == <<"a", ".", "t", "x", "t">>
fB == NumberedName(fA, 2)
fPart == <<"a", ".", "P", "a", "r", "t">>

\* the name under which a directory arrives in the watch directory
fDir == <<"d", ".", "t", "x", "t">>
WatchNames == {fA, fB, fPart, fDir}

\* the inode of the file the environment creates under a watched name
SrcInode(base) ==
    IF base = fA THEN "A" ELSE IF base = fB THEN "B" ELSE IF base = fDir THEN "D" ELSE "P"

\* the dispatches: the startup scan's calls (main.go:555), then the goroutines
\* of the event loop (main.go:574)
ScanTasks == {1, 2}
EvTasks == {3, 4}
Tasks == ScanTasks \cup EvTasks

\* the inode a task's os.Create makes
NewInode(t) == "t" \o ToString(t)

\* file contents: whose bytes, how many, and whether they are all the bytes
\* of the file they were written from
Content(id, n) == [id |-> IF n = 0 THEN "" ELSE id, len |-> n, whole |-> TRUE]

NoPath == Join("", <<>>)
NoLoc == [path |-> NoPath, skip |-> FALSE, rule |-> 0, dst |-> NoPath,
          lastSize |-> -1, stableFor |-> 0, elapsed |-> 0, sf |-> "", df |-> "",
          err |-> FALSE]

\* Rule (main.go:28); every rule of the model matches by extension
Rule(action, dest, skipdup, upload) ==
    [Name |-> "r", Patterns |-> <<>>, Extensions |-> <<<<"T", "X", "T">>>>,
     MIMEPrefixes |-> <<>>, Action |-> action, Dest |-> dest,
     SkipDuplicates |-> skipdup, WebDAVUpload |-> upload]

\* a rule for files of another kind than those that arrive
RuleZip == [Rule("move", OutDir, FALSE, FALSE) EXCEPT !.Extensions = <<<<"z", "i", "p">>>>]

\* Config (main.go:48) with the fields handleFile reads; Dav is dav != nil
Config(rules, create, dav) ==
    [Rules |-> rules, IgnoreExts |-> <<sDotPart>>, SettleMillis |-> 1,
     PollMillis |-> 3, CreateDestDirs |-> create, Dav |-> dav]

\* the configurations main may have loaded: no rule, a rule without
\* destination, a rule that matches none of the files, and a rule with every
\* combination of action, duplicate
\* skipping, upload and directory creation; loadConfig leaves only the
\* actions "move" and "copy" (main.go:412)
Configs ==
    {Config(<<>>, TRUE, TRUE), Config(<<Rule("move", "", FALSE, FALSE)>>, TRUE, TRUE),
     Config(<<RuleZip>>, TRUE, TRUE)}
    \cup {Config(<<Rule(a, OutDir, s, u)>>, c, TRUE) :
              a \in {"move", "copy"}, s \in BOOLEAN, u \in BOOLEAN, c \in BOOLEAN}
    \cup {Config(<<Rule(a, OutDir, FALSE, TRUE)>>, TRUE, FALSE) : a \in {"move", "copy"}}

\* os.Stat(p) succeeds
Exists(p) == p \in DOMAIN files

\* fi.Size()
Size(p) == data[files[p]].len

\* what a path that is a directory holds in place of file content
DirNode == [id |-> "dir", len |-> 0, whole |-> TRUE]

\* a test that takes every path for a file
IsDirNever(p) == FALSE

\* st.IsDir() of a path os.Stat found (main.go:433)
IsDir(p) == data[files[p]] = DirNode

\* the table with entry p set to inode i, and with entry p removed
Link(tbl, p, i) == [q \in DOMAIN tbl \cup {p} |-> IF q = p THEN i ELSE tbl[q]]
Unlink(tbl, p) == [q \in DOMAIN tbl \ {p} |-> tbl[q]]

\* the inode table with inode i holding content c
Store(tbl, i, c) == [j \in DOMAIN tbl \cup {i} |-> IF j = i THEN c ELSE tbl[j]]

(***************************************************************************)
(* The initial state: main has loaded the configuration and read the watch *)
(* directory (main.go:534-552).                                            *)
(***************************************************************************)
\* what the destination directory may hold at startup: files of other origin
\* under the names the dispatcher will try
InitDest ==
    {{}, {fA}, {fA, fB},
     {fA} \cup {NumberedName(fA, i) : i \in 2..(Ceiling - 1)}
          \cup {Base(DupPath(Join(OutDir, fA)))}}

\* the inode of a file the destination directory held at startup
OldInode(base) == "old " \o ToString(base)

\* os.ReadDir returns the entries sorted by name
ReadDir(w) == IF w = {} THEN <<>> ELSE IF w = {fA} THEN <<fA>> ELSE <<fB, fA>>

\* the state in which main starts the scan, for a configuration, the two
\* directories, the size of the files already in the destination directory
\* and the number of events to come
Start(c, w, d, outThere, oldSize, n) ==
    /\ cfg = c
    /\ dirs = IF outThere THEN {WatchDir, OutDir} ELSE {WatchDir}
    /\ files = [p \in {Join(WatchDir, b) : b \in w} \cup {Join(OutDir, b) : b \in d} |->
                   IF p.dir = WatchDir THEN SrcInode(p.base) ELSE OldInode(p.base)]
    /\ data = [i \in {SrcInode(b) : b \in w} \cup {OldInode(b) : b \in d} |->
                   IF i \in {SrcInode(b) : b \in w}
                   THEN Content(i, MaxSize) ELSE Content("old", oldSize)]
    /\ entries = ReadDir(w)
    /\ pending = n
    /\ processing = {}
    /\ watching = FALSE
    /\ exited = FALSE
    /\ pc = [t \in Tasks |-> "idle"]
    /\ loc = [t \in Tasks |-> NoLoc]
    /\ wpc = [t \in Tasks |-> "none"]
    /\ done = [t \in Tasks |-> <<>>]
    /\ sink = {}
    /\ logs = [t \in Tasks |-> <<>>]
    /\ rivals = [t \in Tasks |-> {}]

\* the configurations explored with several dispatches
MoveOnly == Config(<<Rule("move", OutDir, FALSE, FALSE)>>, TRUE, TRUE)
CopyUpload == Config(<<Rule("copy", OutDir, FALSE, TRUE)>>, TRUE, TRUE)

\* main starts in one of these states:
\*   one file at startup or one event, under every configuration;
\*   two files at startup, or two events, under two configurations
Init ==
    \/ \E c \in Configs, d \in InitDest, outThere \in BOOLEAN, oldSize \in MaxSize..(MaxSize + 1) :
          /\ (d # {} => outThere)
          /\ (d = {} => oldSize = MaxSize)
          /\ \/ Start(c, {}, d, outThere, oldSize, 1)
             \/ Start(c, {fA}, d, outThere, oldSize, 0)
    \/ \E c \in {MoveOnly, CopyUpload}, d \in {{}, {fA}}, w \in {{}, {fA, fB}} :
          Start(c, w, d, TRUE, MaxSize, IF w = {} THEN Cardinality(EvTasks) ELSE 0)

(***************************************************************************)
(* Helpers of the actions.                                                 *)
(***************************************************************************)
fsVars == <<dirs, files, data>>
mainVars == <<cfg, entries, watching, pending, exited>>
upVars == <<wpc, done, sink>>

Goto(t, label) == pc' = [pc EXCEPT ![t] = label]
Log(t, line) == logs' = [logs EXCEPT ![t] = Append(@, line)]

\* the rule handleFile matched (r, main.go:450)
RuleOf(t) == cfg.Rules[loc[t].rule]

\* the dispatch of t holds the in-flight marker of its path: it is between
\* LoadOrStore (main.go:426) and the deferred Delete (main.go:429)
Holding(t) == pc[t] \notin {"idle", "guard", "skipped", "done"}

\* the dispatches that are spawned and have not returned
Alive(t) == pc[t] \notin {"idle", "skipped", "done"}

(***************************************************************************)
(* main (main.go:528-580).                                                 *)
(***************************************************************************)
\* the startup scan calls handleFile(path, cfg, dav, true) for the next
\* entry, once the previous call has returned (main.go:553-557)
ScanNext ==
    /\ ~watching
    /\ entries # <<>>
    /\ \A u \in ScanTasks : ~Alive(u)
    /\ \E t \in ScanTasks :
          /\ pc[t] = "idle"
          /\ \A u \in ScanTasks : u < t => pc[u] # "idle"
          /\ Goto(t, "guard")
          /\ loc' = [loc EXCEPT ![t] = [NoLoc EXCEPT !.path = Join(WatchDir, Head(entries)),
                                                     !.skip = TRUE]]
          /\ rivals' = [rivals EXCEPT ![t] = {}]
    /\ entries' = Tail(entries)
    /\ UNCHANGED <<cfg, watching, pending, exited, fsVars, processing, upVars, logs>>

\* the scan is over: the watcher is created and added; when
\* fsnotify.NewWatcher or watcher.Add returns an error, log.Fatal ends the
\* process (main.go:559-567)
StartWatch ==
    /\ ~watching /\ ~exited
    /\ entries = <<>>
    /\ \A u \in ScanTasks : ~Alive(u)
    /\ \E ok \in BOOLEAN :
          IF ok
          THEN watching' = TRUE /\ UNCHANGED exited
          ELSE exited' = TRUE /\ UNCHANGED watching
    /\ UNCHANGED <<cfg, entries, pending, fsVars, processing, pc, loc, upVars, logs, rivals>>

\* a Create or Rename event names a path of the watch directory: main spawns
\* go handleFile(ev.Name, cfg, dav, false) (main.go:571-575)
Event(b) ==
    /\ watching
    /\ pending > 0
    /\ pending' = pending - 1
    /\ \E t \in EvTasks :
          /\ pc[t] = "idle"
          /\ \A u \in EvTasks : u < t => pc[u] # "idle"
          /\ Goto(t, "guard")
          /\ loc' = [loc EXCEPT ![t] = [NoLoc EXCEPT !.path = Join(WatchDir, b)]]
          /\ rivals' = [rivals EXCEPT ![t] =
                            {u \in Tasks : Alive(u) /\ loc[u].path = Join(WatchDir, b)}]
    /\ UNCHANGED <<cfg, entries, watching, exited, fsVars, processing, upVars, logs>>

(***************************************************************************)
(* The environment: downloads arrive, grow and vanish in the watch         *)
(* directory.  A file is left alone once a dispatch of it is past the      *)
(* stability detector, and the environment's steps are taken when a        *)
(* dispatch is about to look at the file: a step taken earlier is seen by  *)
(* no statement of the program before that.                                *)
(***************************************************************************)
Quiet(b) ==
    \A t \in Tasks :
        (Holding(t) /\ loc[t].path = Join(WatchDir, b)) => pc[t] \in {"stat", "poll"}

Observed(b) ==
    \E t \in Tasks : loc[t].path = Join(WatchDir, b) /\ pc[t] \in {"guard", "stat", "poll"}

EnvCreate(b) ==
    /\ watching
    /\ b # fDir
    /\ ~Exists(Join(WatchDir, b))
    /\ SrcInode(b) \notin DOMAIN data
    /\ Quiet(b) /\ Observed(b)
    /\ \E n \in 0..MaxSize :
          /\ files' = Link(files, Join(WatchDir, b), SrcInode(b))
          /\ data' = Store(data, SrcInode(b), Content(SrcInode(b), n))
    /\ UNCHANGED <<mainVars, dirs, processing, pc, loc, upVars, logs, rivals>>

EnvWrite(b) ==
    /\ Exists(Join(WatchDir, b))
    /\ ~IsDir(Join(WatchDir, b))
    /\ Size(Join(WatchDir, b)) < MaxSize
    /\ Quiet(b) /\ Observed(b)
    /\ data' = Store(data, files[Join(WatchDir, b)],
                     Content(SrcInode(b), Size(Join(WatchDir, b)) + 1))
    /\ UNCHANGED <<mainVars, dirs, files, processing, pc, loc, upVars, logs, rivals>>

EnvRemove(b) ==
    /\ Exists(Join(WatchDir, b))
    /\ Quiet(b) /\ Observed(b)
    /\ files' = Unlink(files, Join(WatchDir, b))
    /\ UNCHANGED <<mainVars, dirs, data, processing, pc, loc, upVars, logs, rivals>>

\* a directory is made in the watch directory
EnvMkdir(b) ==
    /\ watching
    /\ b = fDir
    /\ ~Exists(Join(WatchDir, b))
    /\ Quiet(b) /\ Observed(b)
    /\ files' = Link(files, Join(WatchDir, b), SrcInode(b))
    /\ data' = Store(data, SrcInode(b), DirNode)
    /\ UNCHANGED <<mainVars, dirs, processing, pc, loc, upVars, logs, rivals>>

(***************************************************************************)
(* handleFile (main.go:424-526), up to the transfer.                       *)
(***************************************************************************)
\* a guard that claims the path without looking at the marker set
GuardBlind(t) ==
    /\ pc[t] = "guard"
    /\ processing' = processing \cup {loc[t].path}
    /\ Goto(t, "stat")
    /\ UNCHANGED <<mainVars, fsVars, loc, upVars, logs, rivals>>

\* a guard whose Delete is deferred before the test: the dispatch that finds
\* the path claimed releases the claim of the other
GuardDefersFirst(t) ==
    /\ pc[t] = "guard"
    /\ processing' = processing \cup {loc[t].path}
    /\ Goto(t, IF loc[t].path \in processing THEN "ret" ELSE "stat")
    /\ UNCHANGED <<mainVars, fsVars, loc, upVars, logs, rivals>>

\* processing.LoadOrStore(path, time.Now()) (main.go:426-429); "skipped" is
\* the return of main.go:427, before the Delete is deferred
Guard(t) ==
    /\ pc[t] = "guard"
    /\ IF loc[t].path \in processing
       THEN /\ Goto(t, "skipped")
            /\ UNCHANGED processing
       ELSE /\ processing' = processing \cup {loc[t].path}
            /\ Goto(t, "stat")
    /\ UNCHANGED <<mainVars, fsVars, loc, upVars, logs, rivals>>

\* a dispatch that never waits for stability
AfterFilterSkips(t) == "classify"

\* if !skipStabilityCheck { waitUntilStable } (main.go:441)
AfterFilter(t) == IF loc[t].skip THEN "classify" ELSE "poll"

\* os.Stat(path) and hasIgnoredExt (main.go:432-448)
Filter(t) ==
    /\ pc[t] = "stat"
    /\ IF ~Exists(loc[t].path) \/ IsDir(loc[t].path)
       THEN Goto(t, "ret") /\ UNCHANGED logs
       ELSE IF hasIgnoredExt(Base(loc[t].path), cfg.IgnoreExts)
            THEN Goto(t, "ret") /\ Log(t, "skip (ignored ext)")
            ELSE /\ Goto(t, AfterFilter(t))
                 /\ UNCHANGED logs
    /\ UNCHANGED <<mainVars, fsVars, processing, loc, upVars, rivals>>

\* the locals of a function that returned are gone
Returned(l) == [NoLoc EXCEPT !.path = l.path, !.skip = l.skip, !.rule = l.rule,
                             !.dst = l.dst]

\* the time one iteration of waitUntilStable's loop takes: time.Sleep(poll),
\* and one unit for the iteration itself when the sleep takes none
Tick(poll) == IF poll > 0 THEN poll ELSE 1

\* a deadline that is the settle window instead of the five minutes
ExpiredBySettle(l) == l.elapsed >= cfg.SettleMillis

\* time.Now().Before(deadline) is false (main.go:202)
Expired(l) == l.elapsed >= Deadline

\* a window test made before this sample's interval is added
SettledLate(l) == l.stableFor >= cfg.SettleMillis

\* stableFor += poll; stableFor >= settle (main.go:209-210)
Settled(l) == l.stableFor + cfg.PollMillis >= cfg.SettleMillis

\* a detector whose error does not stop the dispatch
NotStableGoesOn(t, why) ==
    /\ Goto(t, "classify")
    /\ Log(t, why)
    /\ loc' = [loc EXCEPT ![t] = Returned(@)]

\* waitUntilStable returns an error: handleFile logs it and returns
\* (main.go:444-447)
NotStable(t, why) ==
    /\ Goto(t, "ret")
    /\ Log(t, why)
    /\ loc' = [loc EXCEPT ![t] = Returned(@)]

\* a new baseline that keeps the duration accumulated so far
RebaseKeeps(l, size) == [l EXCEPT !.lastSize = size]

\* lastSize = size; stableFor = 0 (main.go:213-216)
Rebase(l, size) == [l EXCEPT !.lastSize = size, !.stableFor = 0]

\* one iteration of waitUntilStable's loop (main.go:202-218); elapsed is
\* time.Now() counted from the call
Poll(t) ==
    /\ pc[t] = "poll"
    /\ IF Expired(loc[t])
       THEN NotStable(t, "skip (not stable): timeout")
       ELSE IF ~Exists(loc[t].path)
            THEN NotStable(t, "skip (not stable): stat")
            ELSE IF Size(loc[t].path) = loc[t].lastSize
                 THEN IF Settled(loc[t])
                      THEN /\ Goto(t, "classify")
                           /\ loc' = [loc EXCEPT ![t] = Returned(@)]
                           /\ UNCHANGED logs
                      ELSE /\ loc' = [loc EXCEPT ![t].stableFor = @ + cfg.PollMillis,
                                                 ![t].elapsed = @ + Tick(cfg.PollMillis)]
                           /\ UNCHANGED <<pc, logs>>
                 ELSE /\ loc' = [loc EXCEPT ![t] =
                                     [Rebase(@, Size(loc[t].path))
                                          EXCEPT !.elapsed = @ + Tick(cfg.PollMillis)]]
                      /\ UNCHANGED <<pc, logs>>
    /\ UNCHANGED <<mainVars, fsVars, processing, upVars, rivals>>

\* detectMIME (main.go:92): the extension table, else the file's first bytes
detectMIME(p) ==
    LET ext == ToLower(Ext(Base(p)))
    IN IF ext # <<>> /\ TypeByExtension(ext) # <<>> THEN TypeByExtension(ext)
       ELSE IF ~Exists(p) THEN <<>>
       ELSE DetectContentType(data[files[p]])

\* a destination test that lets every rule through
EmptyDestNever(r) == FALSE

\* destDir == "" (main.go:456-457)
EmptyDest(r) == r.Dest = ""

\* chooseRule and the destination test (main.go:450-461)
Classify(t) ==
    /\ pc[t] = "classify"
    /\ \E r \in {chooseRule(Base(loc[t].path), detectMIME(loc[t].path), cfg.Rules)} :
          IF r = 0
          THEN Goto(t, "ret") /\ Log(t, "no rule matched") /\ UNCHANGED loc
          ELSE IF EmptyDest(cfg.Rules[r])
               THEN Goto(t, "ret") /\ Log(t, "empty dest") /\ UNCHANGED loc
               ELSE /\ Goto(t, IF cfg.CreateDestDirs THEN "mkdir"
                               ELSE IF cfg.Rules[r].SkipDuplicates THEN "dupcheck"
                               ELSE "resolve")
                    /\ loc' = [loc EXCEPT ![t].rule = r]
                    /\ UNCHANGED logs
    /\ UNCHANGED <<mainVars, fsVars, processing, upVars, rivals>>

\* ensureDir(destDir) (main.go:461-466)
Mkdir(t) ==
    /\ pc[t] = "mkdir"
    /\ \E ok \in BOOLEAN :
          IF ok
          THEN /\ dirs' = dirs \cup {RuleOf(t).Dest}
               /\ Goto(t, IF RuleOf(t).SkipDuplicates THEN "dupcheck" ELSE "resolve")
               /\ UNCHANGED logs
          ELSE /\ Goto(t, "ret")
               /\ Log(t, "dest mkdir failed")
               /\ UNCHANGED dirs
    /\ UNCHANGED <<mainVars, files, data, processing, loc, upVars, rivals>>

(***************************************************************************)
(* Duplicate detection and destination naming (main.go:294-344, 468-489).  *)
(***************************************************************************)
\* the loop over the numbered variants (main.go:332-341)
RECURSIVE SameSizeVariant(_, _, _)
SameSizeVariant(src, destDir, i) ==
    IF i >= Ceiling THEN FALSE
    ELSE LET candidate == Join(destDir, NumberedName(Base(src), i))
         IN IF ~Exists(candidate) THEN FALSE
            ELSE IF Size(candidate) = Size(src) /\ Size(src) > 0 THEN TRUE
            ELSE SameSizeVariant(src, destDir, i + 1)

\* fileExistsWithSameSize (main.go:313)
fileExistsWithSameSize(src, destDir) ==
    IF ~Exists(src) THEN FALSE
    ELSE LET candidate == Join(destDir, Base(src))
         IN IF Exists(candidate) /\ Size(candidate) = Size(src) /\ Size(src) > 0
            THEN TRUE
            ELSE SameSizeVariant(src, destDir, 2)

\* a loop that has no other name to give when the numbers run out: it
\* gives the numbered name at the ceiling, unlooked at
RECURSIVE FirstFreeNumbered(_, _)
FirstFreeNumbered(dst, i) ==
    LET candidate == Join(Dir(dst), NumberedName(Base(dst), i))
    IN IF i >= Ceiling \/ ~Exists(candidate) THEN candidate
       ELSE FirstFreeNumbered(dst, i + 1)

\* the loop over the candidates (main.go:302-307)
RECURSIVE FirstFree(_, _)
FirstFree(dst, i) ==
    IF i >= Ceiling THEN DupPath(dst)
    ELSE LET candidate == Join(Dir(dst), NumberedName(Base(dst), i))
         IN IF ~Exists(candidate) THEN candidate ELSE FirstFree(dst, i + 1)

\* a naming that takes the first numbered name without looking
uniquePathBlind(dst) == Join(Dir(dst), NumberedName(Base(dst), 2))

\* uniquePath (main.go:294)
uniquePath(dst) == IF ~Exists(dst) THEN dst ELSE FirstFree(dst, 2)

\* a duplicate test that has the source of a duplicate removed whatever the
\* rule's action
DupCheckRemoves(t) ==
    /\ pc[t] = "dupcheck"
    /\ Goto(t, IF fileExistsWithSameSize(loc[t].path, RuleOf(t).Dest)
               THEN "dupremove" ELSE "resolve")
    /\ UNCHANGED <<mainVars, fsVars, processing, loc, upVars, logs, rivals>>

\* a duplicate test that lets a copy rule copy the duplicate again
DupCheckCopies(t) ==
    /\ pc[t] = "dupcheck"
    /\ Goto(t, IF fileExistsWithSameSize(loc[t].path, RuleOf(t).Dest)
                  /\ RuleOf(t).Action = "move"
               THEN "dupremove" ELSE "resolve")
    /\ UNCHANGED <<mainVars, fsVars, processing, loc, upVars, logs, rivals>>

\* if r.SkipDuplicates { if fileExistsWithSameSize(path, destDir) ... (main.go:469-484)
DupCheck(t) ==
    /\ pc[t] = "dupcheck"
    /\ IF fileExistsWithSameSize(loc[t].path, RuleOf(t).Dest)
       THEN IF RuleOf(t).Action = "move"
            THEN Goto(t, "dupremove") /\ UNCHANGED logs
            ELSE Goto(t, "ret") /\ Log(t, "skip (already exists)")
       ELSE Goto(t, "resolve") /\ UNCHANGED logs
    /\ UNCHANGED <<mainVars, fsVars, processing, loc, upVars, rivals>>

\* a duplicate branch that does not return after the removal
DupRemoveGoesOn(t) ==
    /\ pc[t] = "dupremove"
    /\ \E ok \in BOOLEAN :
          IF ok /\ Exists(loc[t].path)
          THEN /\ files' = Unlink(files, loc[t].path)
               /\ Log(t, "deleted (duplicate)")
          ELSE /\ Log(t, "failed to delete duplicate source")
               /\ UNCHANGED files
    /\ Goto(t, "resolve")
    /\ UNCHANGED <<mainVars, dirs, data, processing, loc, upVars, rivals>>

\* os.Remove(path) of a duplicate source (main.go:473-477)
DupRemove(t) ==
    /\ pc[t] = "dupremove"
    /\ \E ok \in BOOLEAN :
          IF ok /\ Exists(loc[t].path)
          THEN /\ files' = Unlink(files, loc[t].path)
               /\ Log(t, "deleted (duplicate)")
          ELSE /\ Log(t, "failed to delete duplicate source")
               /\ UNCHANGED files
    /\ Goto(t, "ret")
    /\ UNCHANGED <<mainVars, dirs, data, processing, loc, upVars, rivals>>

\* dst := filepath.Join(destDir, filepath.Base(path)), made unique when it
\* exists (main.go:486-491)
Resolve(t) ==
    /\ pc[t] = "resolve"
    /\ LET dst == Join(RuleOf(t).Dest, Base(loc[t].path))
       IN loc' = [loc EXCEPT ![t].dst = IF Exists(dst) THEN uniquePath(dst) ELSE dst]
    /\ Goto(t, IF RuleOf(t).Action = "move" THEN "mv_rename" ELSE "cp_open")
    /\ UNCHANGED <<mainVars, fsVars, processing, upVars, logs, rivals>>

(***************************************************************************)
(* atomicMove (main.go:226-266).                                           *)
(***************************************************************************)
\* os.Rename(from, to) can succeed
CanRename(from, to) == Exists(from) /\ Dir(to) \in dirs

\* the directory table after os.Rename(from, to): the entry of to, if any,
\* is replaced
Renamed(from, to) == Link(Unlink(files, from), to, files[from])

\* what os.Create leaves in the file: no byte, which is all of the source
\* dispatch t has opened only when that source is empty
Truncated(t) == [id |-> "", len |-> 0, whole |-> data[loc[t].sf].len = 0]

\* the inode os.Create(p) opens: that of the existing file, else a new one
CreatedInode(t, p) == IF Exists(p) THEN files[p] ELSE NewInode(t)

\* a cleanup that removes the source instead of the temporary file
SourceRemoved(t, removed) ==
    IF Exists(loc[t].path) THEN Unlink(files, loc[t].path) ELSE files

\* a cleanup that removes the final name instead of the temporary file
DstRemoved(t, removed) ==
    IF removed /\ Exists(loc[t].dst) THEN Unlink(files, loc[t].dst) ELSE files

\* the directory table after _ = os.Remove(df.Name()) (main.go:249-262);
\* the call's error is dropped
TmpRemoved(t, removed) ==
    IF removed /\ Exists(TmpPath(loc[t].dst))
    THEN Unlink(files, TmpPath(loc[t].dst)) ELSE files

\* atomicMove returns err
MoveReturns(t, failed) ==
    /\ Goto(t, "mv_ret")
    /\ loc' = [loc EXCEPT ![t].err = failed]

\* os.Rename(src, dst) (main.go:228)
MvRename(t) ==
    /\ pc[t] = "mv_rename"
    /\ \E ok \in BOOLEAN :
          IF ok /\ CanRename(loc[t].path, loc[t].dst)
          THEN /\ files' = Renamed(loc[t].path, loc[t].dst)
               /\ MoveReturns(t, FALSE)
          ELSE /\ Goto(t, "mv_open")
               /\ UNCHANGED <<files, loc>>
    /\ UNCHANGED <<mainVars, dirs, data, processing, upVars, logs, rivals>>

\* os.Open(src) (main.go:232)
MvOpen(t) ==
    /\ pc[t] = "mv_open"
    /\ \E ok \in BOOLEAN :
          IF ok /\ Exists(loc[t].path)
          THEN /\ Goto(t, "mv_mkdir")
               /\ loc' = [loc EXCEPT ![t].sf = files[loc[t].path]]
          ELSE MoveReturns(t, TRUE)
    /\ UNCHANGED <<mainVars, fsVars, processing, upVars, logs, rivals>>

\* ensureDir(filepath.Dir(dst)) (main.go:238)
MvMkdir(t) ==
    /\ pc[t] = "mv_mkdir"
    /\ \E ok \in BOOLEAN :
          IF ok
          THEN /\ dirs' = dirs \cup {Dir(loc[t].dst)}
               /\ Goto(t, "mv_create")
               /\ UNCHANGED loc
          ELSE /\ MoveReturns(t, TRUE)
               /\ UNCHANGED dirs
    /\ UNCHANGED <<mainVars, files, data, processing, upVars, logs, rivals>>

\* os.Create(dst + ".tmp") (main.go:242)
MvCreate(t) ==
    /\ pc[t] = "mv_create"
    /\ \E ok \in BOOLEAN :
          IF ok /\ Dir(loc[t].dst) \in dirs
          THEN LET tmp == TmpPath(loc[t].dst)
                   i == CreatedInode(t, tmp)
               IN /\ files' = Link(files, tmp, i)
                  /\ data' = Store(data, i, Truncated(t))
                  /\ loc' = [loc EXCEPT ![t].df = i]
                  /\ Goto(t, "mv_copy")
          ELSE /\ MoveReturns(t, TRUE)
               /\ UNCHANGED <<files, data>>
    /\ UNCHANGED <<mainVars, dirs, processing, upVars, logs, rivals>>

\* what io.Copy leaves in the destination when it fails after n bytes
Partial(content, n) == [id |-> IF n = 0 THEN "" ELSE content.id, len |-> n, whole |-> FALSE]

\* io.Copy(df, sf) (main.go:247)
MvCopy(t) ==
    /\ pc[t] = "mv_copy"
    /\ \E n \in 0..data[loc[t].sf].len, removed \in BOOLEAN :
          IF n = data[loc[t].sf].len
          THEN /\ data' = Store(data, loc[t].df, data[loc[t].sf])
               /\ Goto(t, "mv_sync")
               /\ UNCHANGED <<files, loc>>
          ELSE /\ data' = Store(data, loc[t].df, Partial(data[loc[t].sf], n))
               /\ files' = TmpRemoved(t, removed)
               /\ MoveReturns(t, TRUE)
    /\ UNCHANGED <<mainVars, dirs, processing, upVars, logs, rivals>>

\* df.Sync() (main.go:252)
MvSync(t) ==
    /\ pc[t] = "mv_sync"
    /\ \E ok \in BOOLEAN, removed \in BOOLEAN :
          IF ok
          THEN /\ Goto(t, "mv_close")
               /\ UNCHANGED <<files, loc>>
          ELSE /\ files' = TmpRemoved(t, removed)
               /\ MoveReturns(t, TRUE)
    /\ UNCHANGED <<mainVars, dirs, data, processing, upVars, logs, rivals>>

\* df.Close() (main.go:257)
MvClose(t) ==
    /\ pc[t] = "mv_close"
    /\ \E ok \in BOOLEAN, removed \in BOOLEAN :
          IF ok
          THEN /\ Goto(t, "mv_rename2")
               /\ UNCHANGED <<files, loc>>
          ELSE /\ files' = TmpRemoved(t, removed)
               /\ MoveReturns(t, TRUE)
    /\ UNCHANGED <<mainVars, dirs, data, processing, upVars, logs, rivals>>

\* os.Rename(df.Name(), dst) (main.go:261)
MvRename2(t) ==
    /\ pc[t] = "mv_rename2"
    /\ \E ok \in BOOLEAN, removed \in BOOLEAN :
          IF ok /\ CanRename(TmpPath(loc[t].dst), loc[t].dst)
          THEN /\ files' = Renamed(TmpPath(loc[t].dst), loc[t].dst)
               /\ Goto(t, "mv_remove")
               /\ UNCHANGED loc
          ELSE /\ files' = TmpRemoved(t, removed)
               /\ MoveReturns(t, TRUE)
    /\ UNCHANGED <<mainVars, dirs, data, processing, upVars, logs, rivals>>

\* return os.Remove(src) (main.go:265)
MvRemove(t) ==
    /\ pc[t] = "mv_remove"
    /\ \E ok \in BOOLEAN :
          IF ok /\ Exists(loc[t].path)
          THEN /\ files' = Unlink(files, loc[t].path)
               /\ MoveReturns(t, FALSE)
          ELSE /\ MoveReturns(t, TRUE)
               /\ UNCHANGED files
    /\ UNCHANGED <<mainVars, dirs, data, processing, upVars, logs, rivals>>

\* the statement after the transfer: the upload, if the rule asks for one
\* and a client exists (main.go:515), else the return
AfterTransfer(t) == IF RuleOf(t).WebDAVUpload /\ cfg.Dav THEN "up_read" ELSE "ret"

\* a handleFile that goes on to the upload after a failed move
MoveRetUploads(t) ==
    /\ pc[t] = "mv_ret"
    /\ Goto(t, AfterTransfer(t))
    /\ Log(t, IF loc[t].err THEN "move failed" ELSE "moved")
    /\ loc' = [loc EXCEPT ![t] = Returned(@)]
    /\ UNCHANGED <<mainVars, fsVars, processing, upVars, rivals>>

\* handleFile after atomicMove returned (main.go:493-500)
MoveRet(t) ==
    /\ pc[t] = "mv_ret"
    /\ IF loc[t].err
       THEN Goto(t, "ret") /\ Log(t, "move failed")
       ELSE Goto(t, AfterTransfer(t)) /\ Log(t, "moved")
    /\ loc' = [loc EXCEPT ![t] = Returned(@)]
    /\ UNCHANGED <<mainVars, fsVars, processing, upVars, rivals>>

(***************************************************************************)
(* copyTo (main.go:268-292).                                               *)
(***************************************************************************)
\* copyTo returns err
CopyReturns(t, failed) ==
    /\ Goto(t, "cp_ret")
    /\ loc' = [loc EXCEPT ![t].err = failed]

\* os.Open(src) (main.go:269)
CpOpen(t) ==
    /\ pc[t] = "cp_open"
    /\ \E ok \in BOOLEAN :
          IF ok /\ Exists(loc[t].path)
          THEN /\ Goto(t, "cp_mkdir")
               /\ loc' = [loc EXCEPT ![t].sf = files[loc[t].path]]
          ELSE CopyReturns(t, TRUE)
    /\ UNCHANGED <<mainVars, fsVars, processing, upVars, logs, rivals>>

\* ensureDir(filepath.Dir(dst)) (main.go:275)
CpMkdir(t) ==
    /\ pc[t] = "cp_mkdir"
    /\ \E ok \in BOOLEAN :
          IF ok
          THEN /\ dirs' = dirs \cup {Dir(loc[t].dst)}
               /\ Goto(t, "cp_create")
               /\ UNCHANGED loc
          ELSE /\ CopyReturns(t, TRUE)
               /\ UNCHANGED dirs
    /\ UNCHANGED <<mainVars, files, data, processing, upVars, logs, rivals>>

\* os.Create(dst) (main.go:279)
CpCreate(t) ==
    /\ pc[t] = "cp_create"
    /\ \E ok \in BOOLEAN :
          IF ok /\ Dir(loc[t].dst) \in dirs
          THEN LET i == CreatedInode(t, loc[t].dst)
               IN /\ files' = Link(files, loc[t].dst, i)
                  /\ data' = Store(data, i, Truncated(t))
                  /\ loc' = [loc EXCEPT ![t].df = i]
                  /\ Goto(t, "cp_copy")
          ELSE /\ CopyReturns(t, TRUE)
               /\ UNCHANGED <<files, data>>
    /\ UNCHANGED <<mainVars, dirs, processing, upVars, logs, rivals>>

\* io.Copy(df, sf) (main.go:283)
CpCopy(t) ==
    /\ pc[t] = "cp_copy"
    /\ \E n \in 0..data[loc[t].sf].len :
          IF n = data[loc[t].sf].len
          THEN /\ data' = Store(data, loc[t].df, data[loc[t].sf])
               /\ Goto(t, "cp_sync")
               /\ UNCHANGED loc
          ELSE /\ data' = Store(data, loc[t].df, Partial(data[loc[t].sf], n))
               /\ CopyReturns(t, TRUE)
    /\ UNCHANGED <<mainVars, dirs, files, processing, upVars, logs, rivals>>

\* df.Sync() (main.go:287)
CpSync(t) ==
    /\ pc[t] = "cp_sync"
    /\ \E ok \in BOOLEAN :
          IF ok
          THEN Goto(t, "cp_close") /\ UNCHANGED loc
          ELSE CopyReturns(t, TRUE)
    /\ UNCHANGED <<mainVars, fsVars, processing, upVars, logs, rivals>>

\* return df.Close() (main.go:291)
CpClose(t) ==
    /\ pc[t] = "cp_close"
    /\ \E ok \in BOOLEAN : CopyReturns(t, ~ok)
    /\ UNCHANGED <<mainVars, fsVars, processing, upVars, logs, rivals>>

\* handleFile after copyTo returned (main.go:502-509)
CopyRet(t) ==
    /\ pc[t] = "cp_ret"
    /\ IF loc[t].err
       THEN Goto(t, "ret") /\ Log(t, "copy failed")
       ELSE Goto(t, AfterTransfer(t)) /\ Log(t, "copied")
    /\ loc' = [loc EXCEPT ![t] = Returned(@)]
    /\ UNCHANGED <<mainVars, fsVars, processing, upVars, rivals>>

(***************************************************************************)
(* davUpload (main.go:358-380) and the end of handleFile.                  *)
(***************************************************************************)
\* os.ReadFile(localPath) (main.go:359)
UpRead(t) ==
    /\ pc[t] = "up_read"
    /\ \E ok \in BOOLEAN :
          IF ok /\ Exists(loc[t].dst)
          THEN Goto(t, "up_mkdir") /\ UNCHANGED logs
          ELSE Goto(t, "ret") /\ Log(t, "webdav upload failed")
    /\ UNCHANGED <<mainVars, fsVars, processing, loc, upVars, rivals>>

\* _ = c.MkdirAll(dir, 0o755) returns (main.go:367): the sink has answered
\* the requests of the client, whatever the answer; the rules of the model
\* name a remote directory, and the client is made without a timeout of its
\* own (main.go:346-356)
UpMkdir(t) ==
    /\ pc[t] = "up_mkdir"
    /\ Goto(t, "up_spawn")
    /\ UNCHANGED <<mainVars, fsVars, processing, loc, upVars, logs, rivals>>

\* the channel is made and the writer goroutine is started (main.go:370-373)
UpSpawn(t) ==
    /\ pc[t] = "up_spawn"
    /\ Goto(t, "up_select")
    /\ wpc' = [wpc EXCEPT ![t] = "write"]
    /\ done' = [done EXCEPT ![t] = <<>>]
    /\ UNCHANGED <<mainVars, fsVars, processing, loc, sink, logs, rivals>>

\* the writer goroutine: c.Write(rp, data, 0o644) returns (main.go:372)
WriterWrite(t) ==
    /\ wpc[t] = "write"
    /\ \E ok \in BOOLEAN :
          /\ sink' = IF ok THEN sink \cup {Base(loc[t].dst)} ELSE sink
          /\ wpc' = [wpc EXCEPT ![t] = IF ok THEN "send nil" ELSE "send err"]
    /\ UNCHANGED <<mainVars, fsVars, processing, pc, loc, done, logs, rivals>>

\* a send on a channel without room: the writer hands its result over only
\* when the coordinator is waiting for it
WriterSendUnbuffered(t) ==
    /\ wpc[t] \in {"send nil", "send err"}
    /\ pc[t] = "up_select"
    /\ Len(done[t]) < 1
    /\ done' = [done EXCEPT ![t] = Append(@, wpc[t] = "send err")]
    /\ wpc' = [wpc EXCEPT ![t] = "end"]
    /\ UNCHANGED <<mainVars, fsVars, processing, pc, loc, sink, logs, rivals>>

\* the writer goroutine: done <- the result; done has room for one value
WriterSend(t) ==
    /\ wpc[t] \in {"send nil", "send err"}
    /\ Len(done[t]) < 1
    /\ done' = [done EXCEPT ![t] = Append(@, wpc[t] = "send err")]
    /\ wpc' = [wpc EXCEPT ![t] = "end"]
    /\ UNCHANGED <<mainVars, fsVars, processing, pc, loc, sink, logs, rivals>>

\* select: case err := <-done (main.go:375)
UpReceive(t) ==
    /\ pc[t] = "up_select"
    /\ done[t] # <<>>
    /\ done' = [done EXCEPT ![t] = Tail(@)]
    /\ Log(t, IF Head(done[t]) THEN "webdav upload failed" ELSE "webdav uploaded")
    /\ Goto(t, "ret")
    /\ UNCHANGED <<mainVars, fsVars, processing, loc, wpc, sink, rivals>>

\* a timeout that is returned without a line in the log
UpTimeoutSilent(t) ==
    /\ pc[t] = "up_select"
    /\ Goto(t, "ret")
    /\ UNCHANGED <<mainVars, fsVars, processing, loc, upVars, logs, rivals>>

\* select: case <-time.After(timeout) (main.go:377)
UpTimeout(t) ==
    /\ pc[t] = "up_select"
    /\ Log(t, "webdav upload failed")
    /\ Goto(t, "ret")
    /\ UNCHANGED <<mainVars, fsVars, processing, loc, upVars, rivals>>

\* a return that leaves the marker in the set
ReleaseKeeps(t) ==
    /\ pc[t] = "ret"
    /\ Goto(t, "done")
    /\ UNCHANGED <<mainVars, fsVars, processing, loc, upVars, logs, rivals>>

\* handleFile returns: the deferred processing.Delete(path) (main.go:429)
Release(t) ==
    /\ pc[t] = "ret"
    /\ processing' = processing \ {loc[t].path}
    /\ Goto(t, "done")
    /\ UNCHANGED <<mainVars, fsVars, loc, upVars, logs, rivals>>

(***************************************************************************)
(* The specification.                                                      *)
(***************************************************************************)
Next ==
    \/ ScanNext
    \/ StartWatch
    \/ \E b \in WatchNames :
          Event(b) \/ EnvCreate(b) \/ EnvWrite(b) \/ EnvRemove(b) \/ EnvMkdir(b)
    \/ \E t \in Tasks :
          \/ Guard(t) \/ Filter(t) \/ Poll(t) \/ Classify(t) \/ Mkdir(t)
          \/ DupCheck(t) \/ DupRemove(t) \/ Resolve(t)
          \/ MvRename(t) \/ MvOpen(t) \/ MvMkdir(t) \/ MvCreate(t) \/ MvCopy(t)
          \/ MvSync(t) \/ MvClose(t) \/ MvRename2(t) \/ MvRemove(t) \/ MoveRet(t)
          \/ CpOpen(t) \/ CpMkdir(t) \/ CpCreate(t) \/ CpCopy(t) \/ CpSync(t)
          \/ CpClose(t) \/ CopyRet(t)
          \/ UpRead(t) \/ UpMkdir(t) \/ UpSpawn(t) \/ WriterWrite(t) \/ WriterSend(t)
          \/ UpReceive(t) \/ UpTimeout(t) \/ Release(t)

Spec == Init /\ [][Next]_vars

(***************************************************************************)
(* The in-flight guard.                                                    *)
(***************************************************************************)
\* two dispatches name the same path
SamePath(t, u) == t # u /\ loc[t].path = loc[u].path /\ loc[t].path # NoPath

\* C1: for every path, at most one dispatch at a time is past the in-flight
\* guard: two dispatches of the same path, from the startup scan or from
\* events, are never both between their guard and their return
MutualExclusion ==
    \A t \in Tasks, u \in Tasks :
        (t # u /\ Holding(t) /\ Holding(u)) => loc[t].path # loc[u].path

\* a dispatch is in the middle of its transfer or upload and another dispatch
\* of the same path has been turned away by the guard
MutualExclusionWitness ==
    \E t \in Tasks, u \in Tasks :
        /\ SamePath(t, u)
        /\ pc[t] \in {"mv_copy", "cp_copy", "up_select"}
        /\ pc[u] = "skipped"

\* C2: a path is in the marker set exactly while a dispatch that claimed it
\* is running: it is inserted before any work on the path and removed on
\* every exit past the guard, so the set is empty once every dispatch has
\* returned
MarkerSetExact ==
    processing = {loc[t].path : t \in {u \in Tasks : Holding(u)}}

\* every dispatch has returned, one of them after a transfer and a failed
\* upload, and the marker set is empty
MarkerSetExactWitness ==
    /\ \A t \in Tasks : ~Alive(t)
    /\ \E t \in Tasks :
          /\ pc[t] = "done"
          /\ Len(logs[t]) = 2
          /\ logs[t][2] = "webdav upload failed"
    /\ processing = {}

\* the dispatch of t has performed its rule's action
Performed(t) == logs[t] # <<>> /\ logs[t][1] \in {"moved", "copied"}

\* C3, as stated: of two dispatches of the same path, the second spawned
\* before the first returned, only one performs the rule's action: the other
\* is turned away by the guard and leaves no trace
OneOfTwoRuns ==
    \A t \in Tasks : \A u \in rivals[t] :
        (~Alive(t) /\ ~Alive(u)) => ~(Performed(t) /\ Performed(u))

\* C3, as the guard works: a dispatch that executes its guard while another
\* dispatch of the same path is between its guard and its return exits at
\* once, and that step changes neither the filesystem nor the upload sink
\* nor the marker set nor the log; a dispatch that executes its guard when no
\* other holds the path claims it and runs
GuardTurnsAway ==
    [][\A t \in Tasks :
          (pc[t] = "guard" /\ pc'[t] # "guard") =>
              IF \E u \in Tasks : SamePath(t, u) /\ Holding(u)
              THEN /\ pc'[t] = "skipped"
                   /\ UNCHANGED <<fsVars, sink, wpc, done, processing, logs>>
              ELSE /\ pc'[t] = "stat"
                   /\ processing' = processing \cup {loc[t].path}]_vars

\* of two events of the same path, one dispatch has copied or moved the file
\* and the other, spawned while the first was running, has been turned away
GuardTurnsAwayWitness ==
    \E t \in Tasks : \E u \in rivals[t] :
        /\ pc[t] = "skipped"
        /\ pc[u] = "done"
        /\ Performed(u)
        /\ logs[t] = <<>>

(***************************************************************************)
(* The transfer engine.                                                    *)
(***************************************************************************)
\* the step is one of dispatch t
StepOf(t) == pc'[t] # pc[t]

\* entry p of the directory table, and the content it names, are after the
\* step what they were before
Kept(p) ==
    /\ p \in DOMAIN files'
    /\ files'[p] = files[p]
    /\ data'[files[p]] = data[files[p]]

\* two contents are the same bytes
SameBytes(c, d) == c.id = d.id /\ c.len = d.len

\* the content the source of dispatch t had when it arrived
Original(t) == data[SrcInode(Base(loc[t].path))]

\* dispatch t is inside atomicMove
InMove(t) ==
    pc[t] \in {"mv_rename", "mv_open", "mv_mkdir", "mv_create", "mv_copy",
               "mv_sync", "mv_close", "mv_rename2", "mv_remove"}

\* dispatch t is inside copyTo
InCopy(t) ==
    pc[t] \in {"cp_open", "cp_mkdir", "cp_create", "cp_copy", "cp_sync", "cp_close"}

\* dispatch t has chosen its destination under a move rule
Moves(t) == loc[t].dst # NoPath /\ RuleOf(t).Action = "move"

\* C4: no transfer overwrites or truncates a file that was already in the
\* destination directory: a step of a dispatch leaves every file of the
\* destination directory that the dispatch has not created itself under its
\* name and with its content
NoOverwrite ==
    [][\A t \in Tasks :
          StepOf(t) =>
              \A p \in DOMAIN files :
                  (p.dir = OutDir /\ files[p] # NewInode(t)) => Kept(p)]_vars

\* C5: a failed move never deletes the source: when atomicMove returns an
\* error the source exists with its original content, and no step of
\* atomicMove but its successful return touches the source
FailedMoveKeepsSource ==
    /\ [](\A t \in Tasks :
             (pc[t] = "mv_ret" /\ loc[t].err) =>
                 /\ Exists(loc[t].path)
                 /\ files[loc[t].path] = SrcInode(Base(loc[t].path))
                 /\ data[files[loc[t].path]].whole)
    /\ [][\A t \in Tasks :
             (StepOf(t) /\ InMove(t) /\ ~(pc'[t] = "mv_ret" /\ ~loc'[t].err))
                 => Kept(loc[t].path)]_vars

\* atomicMove has returned an error after the temporary file was renamed onto
\* the final name: the removal of the source failed
FailedMoveKeepsSourceWitness ==
    \E t \in Tasks :
        /\ pc[t] = "mv_ret" /\ loc[t].err
        /\ Exists(loc[t].dst) /\ files[loc[t].dst] = NewInode(t)
        /\ Exists(loc[t].path)

\* C6: during and after a move the final destination name does not exist or
\* names a completely written file
NoPartialUnderFinalName ==
    \A t \in Tasks :
        (Moves(t) /\ Exists(loc[t].dst)) => data[files[loc[t].dst]].whole

\* C7: when a move that took the copy fallback returns, either the complete
\* destination file exists and the source does not, or the source is there
\* untouched and the move has left no file under the destination name
EitherOr ==
    \A t \in Tasks :
        (pc[t] = "mv_ret" /\ (loc[t].err \/ loc[t].sf # "")) =>
            \/ /\ Exists(loc[t].dst)
               /\ SameBytes(data[files[loc[t].dst]], Original(t))
               /\ ~Exists(loc[t].path)
            \/ /\ Exists(loc[t].path)
               /\ SameBytes(data[files[loc[t].path]], Original(t))
               /\ ~(Exists(loc[t].dst) /\ files[loc[t].dst] = NewInode(t))

\* after the step, path p names the complete original content of t's source
AtAfter(t, p) ==
    p \in DOMAIN files' /\ SameBytes(data'[files'[p]], Original(t))

\* C8: the move is crash-safe: every step of atomicMove, the removal of the
\* source included, leaves the complete original content of the source at
\* the source path or under the final destination name
ContentSafe ==
    [][\A t \in Tasks :
          (StepOf(t) /\ InMove(t) /\ Original(t).len > 0) =>
              AtAfter(t, loc[t].path) \/ AtAfter(t, loc[t].dst)]_vars

\* C9: a copy goes through a temporary file: in every state of copyTo, its
\* return included, the final destination name does not exist, or names the
\* file that was there before the copy, or names a complete copy of the
\* source
CopyUsesTempFile ==
    \A t \in Tasks :
        ( /\ InCopy(t) \/ pc[t] = "cp_ret"
          /\ Exists(loc[t].dst)
          /\ files[loc[t].dst] = NewInode(t) ) =>
            /\ data[files[loc[t].dst]].whole
            /\ SameBytes(data[files[loc[t].dst]], Original(t))

\* C10: a dispatch whose matched rule has action copy never deletes or
\* modifies the source: no step of the dispatch, and none of its upload's
\* writer, changes the source's entry or content
CopyKeepsSource ==
    [][\A t \in Tasks :
          ( /\ StepOf(t) \/ wpc'[t] # wpc[t]
            /\ loc'[t].rule # 0
            /\ cfg.Rules[loc'[t].rule].Action = "copy"
            /\ Exists(loc[t].path) )
              => Kept(loc[t].path)]_vars

\* a dispatch under a copy rule has returned after the copy and the upload,
\* the source in place
CopyKeepsSourceWitness ==
    \E t \in Tasks :
        /\ pc[t] = "done"
        /\ loc[t].rule # 0 /\ RuleOf(t).Action = "copy"
        /\ logs[t] = <<"copied", "webdav uploaded">>
        /\ Exists(loc[t].path)
        /\ SameBytes(data[files[loc[t].path]], Original(t))

(***************************************************************************)
(* The classifier on its own: handleFile at its call of chooseRule, for    *)
(* every short list of rules and several files.                            *)
(***************************************************************************)
\* longest rule list
MaxRules == 3

\* a rule with the given criteria (main.go:28-38)
RuleBy(name, patterns, exts, mimes) ==
    [Name |-> name, Patterns |-> patterns, Extensions |-> exts,
     MIMEPrefixes |-> mimes, Action |-> "move", Dest |-> OutDir,
     SkipDuplicates |-> FALSE, WebDAVUpload |-> FALSE]

\* rules matching by glob "a*", by extension "TXT", by MIME prefix "text/",
\* and a rule for extension "zip"
ByPattern == RuleBy("pattern", <<<<"a", "*">>>>, <<>>, <<>>)
ByExt == RuleBy("ext", <<>>, <<<<"T", "X", "T">>>>, <<>>)
ByMime == RuleBy("mime", <<>>, <<>>, <<<<"t", "e", "x", "t", "/">>>>)
ByZip == RuleBy("zip", <<>>, <<<<"z", "i", "p">>>>, <<>>)
RuleLists == UNION {[1..n -> {ByPattern, ByExt, ByMime, ByZip}] : n \in 0..MaxRules}

\* a file name no rule matches by name
fBin == <<"b", ".", "b", "i", "n">>

\* handleFile(path) of a file of n bytes stands before chooseRule
AtClassify(rules, b, n) ==
    /\ cfg = Config(rules, FALSE, FALSE)
    /\ dirs = {WatchDir, OutDir}
    /\ files = [p \in {Join(WatchDir, b)} |-> SrcInode(b)]
    /\ data = [i \in {SrcInode(b)} |-> Content(i, n)]
    /\ entries = <<>>
    /\ pending = 0
    /\ processing = {Join(WatchDir, b)}
    /\ watching = TRUE
    /\ exited = FALSE
    /\ pc = [t \in Tasks |-> IF t \in EvTasks THEN "classify" ELSE "idle"]
    /\ loc = [t \in Tasks |-> IF t \in EvTasks
                              THEN [NoLoc EXCEPT !.path = Join(WatchDir, b)]
                              ELSE NoLoc]
    /\ wpc = [t \in Tasks |-> "none"]
    /\ done = [t \in Tasks |-> <<>>]
    /\ sink = {}
    /\ logs = [t \in Tasks |-> <<>>]
    /\ rivals = [t \in Tasks |-> {}]

InitClassify ==
    \E rules \in RuleLists, b \in {fA, fPart, fBin}, n \in 0..MaxSize :
        AtClassify(rules, b, n)

NextClassify == \E t \in Tasks : Classify(t)

SpecClassify == InitClassify /\ [][NextClassify]_vars

\* rule i of the configuration matches the file of dispatch t
MatchesAt(t, i) ==
    RuleMatches(cfg.Rules[i], Base(loc[t].path), detectMIME(loc[t].path))

\* dispatch t is past chooseRule
Classified(t) == pc[t] \in {"mkdir", "dupcheck", "resolve", "ret"}

\* C11: chooseRule returns the first rule in declared order that matches by
\* glob, extension or MIME prefix, never a later rule when an earlier one
\* matches, and no rule exactly when none matches
ChoosesFirst ==
    \A t \in Tasks :
        Classified(t) =>
            /\ loc[t].rule # 0 =>
                   /\ MatchesAt(t, loc[t].rule)
                   /\ \A j \in 1..(loc[t].rule - 1) : ~MatchesAt(t, j)
            /\ loc[t].rule = 0 <=> \A j \in 1..Len(cfg.Rules) : ~MatchesAt(t, j)
            /\ loc[t].rule = 0 <=> logs[t] = <<"no rule matched">>

\* the second rule was returned: the first does not match and the third
\* matches too
ChoosesFirstWitness ==
    \E t \in Tasks :
        /\ Classified(t)
        /\ Len(cfg.Rules) = 3
        /\ loc[t].rule = 2
        /\ ~MatchesAt(t, 1)
        /\ MatchesAt(t, 3)
        /\ cfg.Rules[3] # cfg.Rules[2]


(***************************************************************************)
(* The stability detector alone: waitUntilStable (main.go:196-220) called  *)
(* by an event dispatch, for every settle window and poll interval up to   *)
(* MaxSettle and MaxPoll, on a file the environment may grow, truncate or  *)
(* remove between two samples.                                             *)
(***************************************************************************)
MaxSettle == 5
MaxPoll == 3

\* the configuration with the settle window and the poll interval set
\* (settle_millis, poll_millis; main.go:52-53)
ConfigTimed(settle, poll) ==
    [Config(<<Rule("move", OutDir, FALSE, FALSE)>>, FALSE, FALSE)
        EXCEPT !.SettleMillis = settle, !.PollMillis = poll]

\* handleFile of dispatch t at its call of waitUntilStable (main.go:444), the
\* file having n bytes
AtPoll(c, t, n) ==
    /\ cfg = c
    /\ dirs = {WatchDir, OutDir}
    /\ files = [p \in {Join(WatchDir, fA)} |-> SrcInode(fA)]
    /\ data = [i \in {SrcInode(fA)} |-> Content(i, n)]
    /\ entries = <<>>
    /\ pending = 0
    /\ processing = {Join(WatchDir, fA)}
    /\ watching = TRUE
    /\ exited = FALSE
    /\ pc = [u \in Tasks |-> IF u = t THEN "poll" ELSE "idle"]
    /\ loc = [u \in Tasks |-> IF u = t THEN [NoLoc EXCEPT !.path = Join(WatchDir, fA)]
                              ELSE NoLoc]
    /\ wpc = [u \in Tasks |-> "none"]
    /\ done = [u \in Tasks |-> <<>>]
    /\ sink = {}
    /\ logs = [u \in Tasks |-> <<>>]
    /\ rivals = [u \in Tasks |-> {}]

InitStable ==
    \E settle \in 0..MaxSettle, poll \in 0..MaxPoll, t \in EvTasks, n \in 0..MaxSize :
        AtPoll(ConfigTimed(settle, poll), t, n)

\* the writer of the file truncates it
EnvTruncate(b) ==
    /\ Exists(Join(WatchDir, b))
    /\ Size(Join(WatchDir, b)) > 0
    /\ Quiet(b) /\ Observed(b)
    /\ data' = Store(data, files[Join(WatchDir, b)], Content(SrcInode(b), 0))
    /\ UNCHANGED <<mainVars, dirs, files, processing, pc, loc, upVars, logs, rivals>>

NextStable ==
    \/ \E t \in Tasks : Poll(t)
    \/ EnvWrite(fA)
    \/ EnvTruncate(fA)
    \/ EnvRemove(fA)

SpecStable == InitStable /\ [][NextStable]_vars

\* the number of the sample the next iteration of dispatch t takes
Samples(t) == loc[t].elapsed \div Tick(cfg.PollMillis) + 1

\* dispatch t has taken a sample and every sample so far had the same size
Steady(t) == loc[t].elapsed = loc[t].stableFor + Tick(cfg.PollMillis)

\* the sample dispatch t takes now finds the size of the previous sample
SameAgain(t) ==
    /\ pc[t] = "poll"
    /\ Exists(loc[t].path)
    /\ Size(loc[t].path) = loc[t].lastSize

\* waitUntilStable of dispatch t returns nil in this step
DeclaresStable(t) == pc[t] = "poll" /\ pc'[t] = "classify"

\* waitUntilStable of dispatch t returns the timeout error in this step
TimesOut(t) ==
    /\ pc[t] = "poll" /\ pc'[t] = "ret"
    /\ logs'[t] = Append(logs[t], "skip (not stable): timeout")

Ceil(a, b) == (a + b - 1) \div b

\* the samples a file of constant size needs: the first one, which only
\* records the size, and one per poll interval of the settle window, at
\* least one
Need(settle, poll) ==
    1 + (IF Ceil(settle, poll) > 1 THEN Ceil(settle, poll) ELSE 1)

\* C12 as stated: a file whose size is the same at every sample is declared
\* stable, whatever the settle window and the poll interval, and that at
\* sample ceil(settle/poll) (or, counting only the samples after the first,
\* at sample ceil(settle/poll) + 1)
StableAfterCeil ==
    [][\A t \in Tasks :
          (Steady(t) /\ SameAgain(t) /\ pc'[t] # "poll") =>
              /\ DeclaresStable(t)
              /\ cfg.PollMillis > 0
              /\ Samples(t) \in {Ceil(cfg.SettleMillis, cfg.PollMillis),
                                 Ceil(cfg.SettleMillis, cfg.PollMillis) + 1}]_vars

\* C12: with a poll interval above zero, a file whose size is the same at
\* every sample is declared stable at sample 1 + max(1, ceil(settle/poll)) and
\* at no other, provided that sample is taken before the deadline; with a
\* poll interval of zero and a settle window above zero it is never
\* declared stable; the timeout is returned only once the deadline has passed
StableAfterBaseline ==
    [][\A t \in Tasks :
          /\ (DeclaresStable(t) /\ Steady(t) /\ cfg.PollMillis > 0) =>
                 Samples(t) = Need(cfg.SettleMillis, cfg.PollMillis)
          /\ (Steady(t) /\ SameAgain(t) /\ cfg.PollMillis > 0
                /\ Samples(t) = Need(cfg.SettleMillis, cfg.PollMillis)
                /\ loc[t].elapsed < Deadline /\ StepOf(t)) => DeclaresStable(t)
          /\ (cfg.PollMillis = 0 /\ cfg.SettleMillis > 0) => ~DeclaresStable(t)
          /\ TimesOut(t) => loc[t].elapsed >= Deadline]_vars

\* a file of constant size is about to be declared stable at its third or a
\* later sample
StableAfterBaselineWitness ==
    \E t \in Tasks :
        /\ Steady(t) /\ SameAgain(t)
        /\ cfg.PollMillis > 1
        /\ Samples(t) = Need(cfg.SettleMillis, cfg.PollMillis)
        /\ Samples(t) >= 3
        /\ loc[t].elapsed < Deadline

\* C13: a sample whose size differs from the previous one never ends the
\* polling as stable: the detector keeps polling while the deadline has not
\* passed and returns the timeout once it has, and the deadline does not
\* depend on the settle window or the poll interval
NeverStableWhileChanging ==
    [][\A t \in Tasks :
          /\ DeclaresStable(t) => SameAgain(t)
          /\ (pc[t] = "poll" /\ Exists(loc[t].path) /\ ~SameAgain(t) /\ StepOf(t)) =>
                 /\ TimesOut(t)
                 /\ loc[t].elapsed >= Deadline
          /\ (pc[t] = "poll" /\ loc[t].elapsed >= Deadline
                /\ (pc'[t] # pc[t] \/ loc'[t] # loc[t])) => TimesOut(t)]_vars

\* the timeout was returned with a settle window of zero, under which any
\* repeated size would have ended the polling: every sample differed
NeverStableWhileChangingWitness ==
    \E t \in Tasks :
        /\ cfg.SettleMillis = 0 /\ cfg.PollMillis = 1
        /\ pc[t] = "ret"
        /\ logs[t] = <<"skip (not stable): timeout">>


(***************************************************************************)
(* The stability detector inside handleFile (main.go:440-448).             *)
(***************************************************************************)
\* the log of a dispatch whose detector returned the error why
Unstable(t, why) == logs[t] # <<>> /\ logs[t][1] = why

\* dispatch t is past waitUntilStable and has not given up there
PastDetector(t) == pc[t] \notin {"idle", "guard", "skipped", "stat", "poll", "ret", "done"}

\* dispatch t has neither classified nor transferred: it matched no rule,
\* chose no destination, wrote nothing to its log but the detector's error,
\* created no file and started no upload
NothingDone(t) ==
    /\ pc[t] \in {"ret", "done"}
    /\ Len(logs[t]) = 1
    /\ loc[t].rule = 0 /\ loc[t].dst = NoPath
    /\ NewInode(t) \notin DOMAIN data
    /\ wpc[t] = "none"

\* C14: when the stat of a sample fails, waitUntilStable returns at that
\* sample: the step takes the dispatch to its return with the error logged
\* and changes no file, and the dispatch then ends having neither classified
\* nor transferred anything
StatFailureEnds ==
    /\ [][\A t \in Tasks :
             (pc[t] = "poll" /\ ~Expired(loc[t]) /\ ~Exists(loc[t].path)
                /\ (pc'[t] # pc[t] \/ loc'[t] # loc[t])) =>
                 /\ pc'[t] = "ret"
                 /\ logs'[t] = Append(logs[t], "skip (not stable): stat")
                 /\ UNCHANGED <<fsVars, sink>>]_vars
    /\ [](\A t \in Tasks : Unstable(t, "skip (not stable): stat") => NothingDone(t))

\* a dispatch has returned after a failed stat of the detector, the file
\* having been removed while it polled
StatFailureEndsWitness ==
    \E t \in Tasks :
        /\ pc[t] = "done"
        /\ logs[t] = <<"skip (not stable): stat">>
        /\ ~Exists(loc[t].path)

\* C15: a dispatch of the startup scan never runs the stability detector; a
\* dispatch of an event reaches the classification only by the detector
\* declaring the file stable, and everything after the classification only
\* through it; a dispatch whose detector failed changes no file
StableBeforeClassify ==
    /\ [][\A t \in Tasks :
             /\ (t \in EvTasks /\ pc'[t] = "classify" /\ StepOf(t)) =>
                    DeclaresStable(t) /\ SameAgain(t) /\ Settled(loc[t])
             /\ (PastDetector(t)' /\ ~PastDetector(t)) => pc'[t] = "classify"
             /\ (StepOf(t) /\ (pc[t] = "poll" \/ pc'[t] = "done")
                   /\ (Unstable(t, "skip (not stable): stat")
                         \/ Unstable(t, "skip (not stable): timeout"))') =>
                    UNCHANGED <<fsVars, sink>>]_vars
    /\ [](\A t \in Tasks :
             /\ t \in ScanTasks => (pc[t] # "poll" /\ (Alive(t) => loc[t].skip))
             /\ (t \in EvTasks /\ Alive(t)) => ~loc[t].skip
             /\ (Unstable(t, "skip (not stable): stat")
                   \/ Unstable(t, "skip (not stable): timeout")) => NothingDone(t))

\* an event dispatch has transferred its file, and the startup scan before
\* it had nothing to do
StableBeforeClassifyWitness ==
    \E t \in EvTasks :
        /\ pc[t] = "done"
        /\ Performed(t)
        /\ \A u \in ScanTasks : pc[u] = "idle"


(***************************************************************************)
(* Termination of handleFile, and the upload's timeout.                    *)
(***************************************************************************)
\* the steps dispatch t takes by itself once scheduled: its own statements,
\* local system calls (which return, with or without an error), the sleep of
\* the detector and the timer of the upload; the answers of the upload sink
\* (UpMkdir, WriterWrite) are not among them
Step(t) ==
    \/ Guard(t) \/ Filter(t) \/ Poll(t) \/ Classify(t) \/ Mkdir(t)
    \/ DupCheck(t) \/ DupRemove(t) \/ Resolve(t)
    \/ MvRename(t) \/ MvOpen(t) \/ MvMkdir(t) \/ MvCreate(t) \/ MvCopy(t)
    \/ MvSync(t) \/ MvClose(t) \/ MvRename2(t) \/ MvRemove(t) \/ MoveRet(t)
    \/ CpOpen(t) \/ CpMkdir(t) \/ CpCreate(t) \/ CpCopy(t) \/ CpSync(t)
    \/ CpClose(t) \/ CopyRet(t)
    \/ UpRead(t) \/ UpSpawn(t) \/ WriterSend(t)
    \/ UpReceive(t) \/ UpTimeout(t) \/ Release(t)

\* the Go scheduler runs every goroutine that can run, and timers fire
Fair == \A t \in Tasks : WF_vars(Step(t))

SpecFair == Spec /\ Fair

\* C16: every execution of handleFile returns: a dispatch that has been
\* started is eventually turned away by the guard or reaches its return
Terminates ==
    \A t \in Tasks : (pc[t] = "guard") ~> (pc[t] \in {"skipped", "done"})


\* dispatch t is inside davUpload and waits for the upload sink
AwaitsSink(t) == pc[t] \in {"up_mkdir", "up_spawn", "up_select"}

\* C17: the upload waits for the sink no longer than its timer: a dispatch
\* that waits for the sink, in the remote directory creation or in the
\* write, eventually returns from davUpload even when the sink never answers
UploadReturns ==
    \A t \in Tasks : AwaitsSink(t) ~> (pc[t] \in {"ret", "done"})


(***************************************************************************)
(* The upload after the transfer (main.go:514-525).                        *)
(***************************************************************************)
\* dispatch t is inside davUpload, or its writer goroutine has been started
Uploading(t) == pc[t] \in {"up_read", "up_mkdir", "up_spawn", "up_select"} \/ wpc[t] # "none"

\* the local transfer of dispatch t failed
LocalFailure(t) ==
    \E i \in 1..Len(logs[t]) : logs[t][i] \in {"move failed", "copy failed"}

\* C18: the upload is started only after the move or copy of the same
\* dispatch has succeeded and never after it failed, and no step of the
\* upload, of its writer or of the return after it changes a file: a failed
\* or timed-out upload leaves the transferred file where it is and does not
\* bring the source back
UploadAfterSuccess ==
    /\ [](\A t \in Tasks :
             /\ Uploading(t) => (Performed(t) /\ ~LocalFailure(t))
             /\ LocalFailure(t) => (Len(logs[t]) = 1 /\ wpc[t] = "none"))
    /\ [][\A t \in Tasks :
             (Uploading(t) /\ (pc'[t] # pc[t] \/ wpc'[t] # wpc[t])) =>
                 UNCHANGED fsVars]_vars

\* a move was followed by an upload that failed or timed out: the file is
\* at its destination and the source is gone
UploadAfterSuccessWitness ==
    \E t \in Tasks :
        /\ pc[t] = "done"
        /\ logs[t] = <<"moved", "webdav upload failed">>
        /\ Exists(loc[t].dst)
        /\ ~Exists(loc[t].path)
        /\ sink = {}


(***************************************************************************)
(* Duplicate detection (main.go:468-484).                                  *)
(***************************************************************************)
\* the destination directory of dispatch t holds a file with the name and
\* the non-zero size of the source
DuplicateAt(t) ==
    LET d == Join(RuleOf(t).Dest, Base(loc[t].path))
    IN /\ Exists(loc[t].path) /\ Exists(d)
       /\ Size(d) = Size(loc[t].path)
       /\ Size(d) > 0

\* C19: a dispatch of the startup scan under a copy rule runs the duplicate
\* detection whether or not the rule enables skip_duplicates: while the
\* destination holds a file with the source's name and size, no step of the
\* dispatch adds a file
ScanCopyDedupes ==
    [][\A t \in Tasks :
          (loc[t].skip /\ loc[t].rule # 0 /\ StepOf(t)
             /\ RuleOf(t).Action = "copy" /\ DuplicateAt(t)) =>
              DOMAIN files' = DOMAIN files]_vars


\* dispatch t took the duplicate branch of a move rule
DuplicateHit(t) ==
    /\ logs[t] # <<>>
    /\ logs[t][1] \in {"deleted (duplicate)", "failed to delete duplicate source"}

\* C20 as stated: a dispatch under a move rule with skip_duplicates that
\* finds the duplicate deletes the source
DuplicateSourceDeleted ==
    [][\A t \in Tasks :
          (pc[t] = "dupremove" /\ StepOf(t)) => ~Exists(loc[t].path)']_vars

\* C20: under a move rule with skip_duplicates, when the destination holds a
\* file with the source's name and non-zero size, the dispatch goes to the
\* removal of the source without changing a file; the removal deletes the
\* source and logs it, or fails, logs the failure and leaves the source; in
\* both cases the dispatch returns without a transfer: it chooses no
\* destination name and creates no file
MoveDuplicateRemoves ==
    /\ [][\A t \in Tasks :
             /\ (pc[t] = "dupcheck" /\ StepOf(t) /\ RuleOf(t).Action = "move"
                   /\ DuplicateAt(t)) =>
                    /\ RuleOf(t).SkipDuplicates
                    /\ pc'[t] = "dupremove"
                    /\ UNCHANGED fsVars
             /\ (pc[t] = "dupremove" /\ StepOf(t)) =>
                    /\ pc'[t] = "ret"
                    /\ UNCHANGED <<dirs, data>>
                    /\ \/ /\ files' = Unlink(files, loc[t].path)
                          /\ logs'[t] = <<"deleted (duplicate)">>
                       \/ /\ files' = files
                          /\ logs'[t] = <<"failed to delete duplicate source">>
             /\ (DuplicateHit(t) /\ StepOf(t)) => UNCHANGED fsVars]_vars
    /\ [](\A t \in Tasks :
             DuplicateHit(t) =>
                 /\ pc[t] \in {"ret", "done"}
                 /\ Len(logs[t]) = 1
                 /\ loc[t].dst = NoPath
                 /\ NewInode(t) \notin DOMAIN data
                 /\ wpc[t] = "none")

\* a move dispatch has returned after deleting a duplicate source: the
\* destination directory holds the file it held before and nothing else
MoveDuplicateRemovesWitness ==
    \E t \in Tasks :
        /\ pc[t] = "done"
        /\ logs[t] = <<"deleted (duplicate)">>
        /\ DOMAIN files = {Join(OutDir, Base(loc[t].path))}
        /\ files[Join(OutDir, Base(loc[t].path))] = OldInode(Base(loc[t].path))


\* dispatch t ends in this step because it found a duplicate
EndsOnDuplicate(t) ==
    /\ pc[t] \in {"dupcheck", "dupremove"}
    /\ pc'[t] = "ret"

\* C21 as stated: a dispatch that ends because a duplicate was found leaves
\* the source file as it is
DuplicateLeavesFile ==
    [][\A t \in Tasks : EndsOnDuplicate(t) => Kept(loc[t].path)]_vars

\* C21: under a copy rule a duplicate ends the dispatch as a skip: the step
\* that finds it logs the skip, goes to the return and changes no file, and
\* the dispatch has then chosen no destination name, created no file and
\* started no upload; under a move rule the duplicate branch is the removal
\* of the source
DuplicateSkipsCopy ==
    /\ [][\A t \in Tasks :
             /\ (pc[t] = "dupcheck" /\ StepOf(t)
                   /\ fileExistsWithSameSize(loc[t].path, RuleOf(t).Dest)) =>
                    IF RuleOf(t).Action = "copy"
                    THEN /\ pc'[t] = "ret"
                         /\ logs'[t] = <<"skip (already exists)">>
                         /\ UNCHANGED <<fsVars, sink>>
                    ELSE pc'[t] = "dupremove"
             /\ (logs[t] = <<"skip (already exists)">> /\ StepOf(t)) =>
                    UNCHANGED <<fsVars, sink>>]_vars
    /\ [](\A t \in Tasks :
             (logs[t] # <<>> /\ logs[t][1] = "skip (already exists)") =>
                 /\ pc[t] \in {"ret", "done"}
                 /\ Len(logs[t]) = 1
                 /\ RuleOf(t).Action = "copy"
                 /\ loc[t].dst = NoPath
                 /\ NewInode(t) \notin DOMAIN data
                 /\ wpc[t] = "none")

\* a copy dispatch has returned on a duplicate: the source is still in the
\* watch directory
DuplicateSkipsCopyWitness ==
    \E t \in Tasks :
        /\ pc[t] = "done"
        /\ logs[t] = <<"skip (already exists)">>
        /\ Exists(loc[t].path)
        /\ files[loc[t].path] = SrcInode(Base(loc[t].path))


(***************************************************************************)
(* Destination naming alone: handleFile at dst := filepath.Join(...)       *)
(* (main.go:486) for every set of occupied names in the destination        *)
(* directory, followed by the rename of a move.                            *)
(***************************************************************************)
\* the names uniquePath looks at for the file a.txt, and one beyond
TriedNames ==
    {fA, Base(DupPath(Join(OutDir, fA)))} \cup {NumberedName(fA, i) : i \in 2..Ceiling}

\* dispatch t at the naming of its destination under rule r, the
\* destination directory holding the names of occ
AtResolve(r, t, occ) ==
    /\ cfg = Config(<<r>>, FALSE, FALSE)
    /\ dirs = {WatchDir, OutDir}
    /\ files = [p \in {Join(WatchDir, fA)} \cup {Join(OutDir, b) : b \in occ} |->
                   IF p.dir = WatchDir THEN SrcInode(fA) ELSE OldInode(p.base)]
    /\ data = [i \in {SrcInode(fA)} \cup {OldInode(b) : b \in occ} |->
                   IF i = SrcInode(fA) THEN Content(i, MaxSize) ELSE Content("old", 0)]
    /\ entries = <<>>
    /\ pending = 0
    /\ processing = {Join(WatchDir, fA)}
    /\ watching = (t \in EvTasks)
    /\ exited = FALSE
    /\ pc = [u \in Tasks |-> IF u = t THEN "resolve" ELSE "idle"]
    /\ loc = [u \in Tasks |-> IF u = t
                              THEN [NoLoc EXCEPT !.path = Join(WatchDir, fA),
                                                 !.skip = (t \in ScanTasks),
                                                 !.rule = 1]
                              ELSE NoLoc]
    /\ wpc = [u \in Tasks |-> "none"]
    /\ done = [u \in Tasks |-> <<>>]
    /\ sink = {}
    /\ logs = [u \in Tasks |-> <<>>]
    /\ rivals = [u \in Tasks |-> {}]

InitUnique ==
    \E a \in {"move", "copy"}, t \in {1, 3}, occ \in SUBSET TriedNames :
        AtResolve(Rule(a, OutDir, FALSE, FALSE), t, occ)

NextUnique == \E t \in Tasks : Resolve(t) \/ MvRename(t)

SpecUnique == InitUnique /\ [][NextUnique]_vars

\* the k-th numbered variant of path p
Variant(p, k) == Join(Dir(p), NumberedName(Base(p), k))

\* C22: the destination is the plain name when it is free; otherwise the
\* numbered name with the lowest number from 2 that is free, all lower ones
\* being occupied; otherwise, when every number below the ceiling is
\* occupied, the name with the suffix .dup; and the rename of a move puts
\* the source file under the name chosen
LowestFreeName ==
    [][\A t \in Tasks :
          /\ (pc[t] = "resolve" /\ StepOf(t)) =>
                LET d == Join(RuleOf(t).Dest, Base(loc[t].path))
                    chosen == loc'[t].dst
                IN \/ ~Exists(d) /\ chosen = d
                   \/ /\ Exists(d)
                      /\ \E k \in 2..(Ceiling - 1) :
                            /\ chosen = Variant(d, k)
                            /\ ~Exists(Variant(d, k))
                            /\ \A j \in 2..(k - 1) : Exists(Variant(d, j))
                   \/ /\ Exists(d)
                      /\ \A k \in 2..(Ceiling - 1) : Exists(Variant(d, k))
                      /\ chosen = DupPath(d)
          /\ (pc[t] = "mv_rename" /\ pc'[t] = "mv_ret" /\ ~loc'[t].err) =>
                /\ loc'[t].dst = loc[t].dst
                /\ Exists(loc[t].dst)'
                /\ files'[loc[t].dst] = files[loc[t].path]]_vars

\* a.txt and a (2).txt were occupied and a (3).txt free, and the moved file
\* is at a (3).txt
LowestFreeNameWitness ==
    \E t \in Tasks :
        /\ pc[t] = "mv_ret" /\ ~loc[t].err
        /\ loc[t].dst = Join(OutDir, NumberedName(fA, 3))
        /\ files[loc[t].dst] = SrcInode(fA)
        /\ files[Join(OutDir, fA)] = OldInode(fA)
        /\ files[Join(OutDir, fB)] = OldInode(fB)


(***************************************************************************)
(* The three matchers of chooseRule (main.go:145-181), each on its own:    *)
(* handleFile at its call of chooseRule with one rule that has one kind of *)
(* criterion, for file names, globs, extensions and MIME prefixes in       *)
(* several letter cases.                                                   *)
(***************************************************************************)
MatchNames == {<<"a", ".", "t", "x", "t">>,
               <<"A", ".", "T", "X", "T">>,
               <<"a", ".", "T", "x", "t">>,
               <<"a">>,
               <<"b", ".", "b", "i", "n">>,
               <<"x", "a", ".", "t", "x", "t">>}
MatchPatterns == {<<"a", "*">>,
                  <<"A", "*">>,
                  <<"*", ".", "t", "x", "t">>,
                  <<"a">>,
                  <<"?", ".", "t", "x", "t">>,
                  <<"*">>,
                  <<"a", ".", "t", "x", "t">>}
MatchExts == {<<"t", "x", "t">>,
              <<"T", "X", "T">>,
              <<"T", "x", "t">>,
              <<".", "t", "x", "t">>,
              <<"b", "i", "n">>}
MatchMimes == {<<"t", "e", "x", "t", "/">>,
               <<"T", "E", "X", "T", "/">>,
               <<"T", "e", "x", "t", "/", "P", "l", "a", "i", "n">>,
               <<"a", "p", "p", "l", "i", "c", "a", "t", "i", "o", "n", "/">>,
               <<"e", "x", "t", "/">>,
               <<"t", "e", "x", "t", "/", "p", "l", "a", "i", "n", ";", " ", "c", "h", "a", "r", "s", "e", "t", "=", "u", "t", "f", "-", "8", "x">>}

\* the criterion lists: one or two entries, or none
ListsOf(set) == {<<>>} \cup {<<x>> : x \in set} \cup {<<x, y>> : x \in set, y \in set}

\* rules with one kind of criterion
MatchRules ==
    {RuleBy("pattern", l, <<>>, <<>>) : l \in ListsOf(MatchPatterns)}
    \cup {RuleBy("ext", <<>>, l, <<>>) : l \in ListsOf(MatchExts)}
    \cup {RuleBy("mime", <<>>, <<>>, l) : l \in ListsOf(MatchMimes)}

InitMatch ==
    \E r \in MatchRules, b \in MatchNames, n \in 0..MaxSize : AtClassify(<<r>>, b, n)

SpecMatch == InitMatch /\ [][NextClassify]_vars

\* two strings are equal up to the case of their letters
UpToCase(a, b) == Len(a) = Len(b) /\ \A i \in 1..Len(a) : ToLowerCh(a[i]) = ToLowerCh(b[i])

\* the only rule of the configuration, with criteria of one kind
OnlyBy(kind) == Len(cfg.Rules) = 1 /\ cfg.Rules[1].Name = kind

\* the part of a file name after its last dot, empty when it has none
AfterLastDot(name) ==
    IF \A i \in 1..Len(name) : name[i] # "." THEN <<>>
    ELSE LET d == CHOOSE i \in 1..Len(name) :
                      name[i] = "." /\ \A j \in (i + 1)..Len(name) : name[j] # "."
         IN [k \in 1..(Len(name) - d) |-> name[d + k]]

\* C23: a rule's MIME prefix matches the detected content type whenever the
\* prefix equals the start of the content type up to letter case, and only
\* then
MimePrefixFold ==
    \A t \in Tasks :
        (Classified(t) /\ OnlyBy("mime")) =>
            LET mt == detectMIME(loc[t].path)
                prefixes == cfg.Rules[1].MIMEPrefixes
            IN loc[t].rule = 1 <=>
                   \E i \in 1..Len(prefixes) :
                       /\ Len(prefixes[i]) <= Len(mt)
                       /\ UpToCase(prefixes[i], SubSeq(mt, 1, Len(prefixes[i])))

CharOk(p, c) == p = "?" \/ p = c

\* a glob with at most one "*" matches a whole name: without "*", character
\* by character; with it, the part before matches the start of the name and
\* the part after matches its end
GlobSpec(pat, name) ==
    IF \A i \in 1..Len(pat) : pat[i] # "*"
    THEN Len(pat) = Len(name) /\ \A i \in 1..Len(pat) : CharOk(pat[i], name[i])
    ELSE LET s == CHOOSE i \in 1..Len(pat) : pat[i] = "*"
             k == Len(pat) - s
         IN /\ Len(name) >= Len(pat) - 1
            /\ \A i \in 1..(s - 1) : CharOk(pat[i], name[i])
            /\ \A j \in 1..k : CharOk(pat[s + j], name[Len(name) - k + j])

\* C25: a rule with glob patterns matches exactly when one of its patterns
\* matches the whole base name, letters compared with their case; it never
\* matches with an empty list
GlobExact ==
    \A t \in Tasks :
        (Classified(t) /\ OnlyBy("pattern")) =>
            LET name == Base(loc[t].path)
                patterns == cfg.Rules[1].Patterns
            IN /\ loc[t].rule = 1 <=>
                      \E i \in 1..Len(patterns) : GlobSpec(patterns[i], name)
               /\ patterns = <<>> => loc[t].rule = 0

\* the globs a* and *.txt were tried on A.TXT and neither matched
GlobExactWitness ==
    \E t \in Tasks :
        /\ Classified(t) /\ OnlyBy("pattern")
        /\ Base(loc[t].path) = <<"A", ".", "T", "X", "T">>
        /\ cfg.Rules[1].Patterns = <<<<"a", "*">>, <<"*", ".", "t", "x", "t">>>>
        /\ loc[t].rule = 0

(***************************************************************************)
(* The filter of handleFile (main.go:431-439).                             *)
(***************************************************************************)
\* the extension of the path is one of the ignored ones, up to letter case
IgnoredName(p) ==
    \E i \in 1..Len(cfg.IgnoreExts) : UpToCase(Ext(Base(p)), cfg.IgnoreExts[i])

\* the filter is to turn the path of dispatch t away: it is missing, a
\* directory, or has an ignored extension
Unfit(t) ==
    \/ loc[t].path \notin DOMAIN files
    \/ data[files[loc[t].path]] = DirNode
    \/ IgnoredName(loc[t].path)

\* dispatch t has not gone further than the filter
AtMostFiltered(t) == pc[t] \in {"idle", "guard", "skipped", "stat", "ret", "done"}

\* C26: a dispatch whose path, when the filter looks at it, is missing, is a
\* directory or has an ignored extension (up to letter case) returns from
\* the filter with the file system and the sink untouched; a dispatch of a
\* name with an ignored extension, or of a name that is only ever a
\* directory, is never found at a later step, and neither creates a
\* destination directory nor reaches the sink
FilterTurnsAway ==
    /\ [][\A t \in Tasks :
             (pc[t] = "stat" /\ pc'[t] # "stat" /\ Unfit(t)) =>
                 (pc'[t] = "ret" /\ UNCHANGED <<fsVars, upVars>>)]_vars
    /\ [](\A t \in Tasks :
             (IgnoredName(loc[t].path) \/ Base(loc[t].path) = fDir) =>
                 (AtMostFiltered(t) /\ wpc[t] = "none" /\ done[t] = <<>>))

\* the filter has turned away a directory and a file whose extension is an
\* ignored one in other letter case
FilterTurnsAwayWitness ==
    \E t \in Tasks, u \in Tasks :
        /\ pc[t] = "ret" /\ Base(loc[t].path) = fDir
        /\ loc[t].path \in DOMAIN files /\ data[files[loc[t].path]] = DirNode
        /\ logs[t] = <<>>
        /\ pc[u] = "ret" /\ Base(loc[u].path) = fPart
        /\ loc[u].path \in DOMAIN files /\ Len(logs[u]) = 1

(***************************************************************************)
(* Dispatches that end at the classifier (main.go:450-460).                *)
(***************************************************************************)
\* under this configuration no file that arrives finds a rule with a
\* destination
NoDestination ==
    \/ cfg.Rules = <<>>
    \/ cfg.Rules = <<RuleZip>>
    \/ cfg.Rules[1].Dest = ""

\* the last line dispatch t logged
LastLine(t) == logs[t][Len(logs[t])]

\* C27: the step by which a dispatch ends for want of a matching rule or of
\* a destination changes no directory, no file and nothing of the sink; and
\* where every dispatch ends so, nothing the dispatcher does from startup on
\* creates a directory, changes a file or its content, or reaches the sink:
\* directories stay as they were, files change by the environment's steps
\* only, and the sink and the uploads stay empty
UnmatchedNoEffect ==
    /\ [][\A t \in Tasks :
             (pc[t] = "classify" /\ pc'[t] = "ret") =>
                 /\ UNCHANGED <<fsVars, upVars>>
                 /\ LastLine(t)' \in {"no rule matched", "empty dest"}]_vars
    /\ [][NoDestination =>
             /\ dirs' = dirs
             /\ UNCHANGED upVars
             /\ (<<files, data>>' # <<files, data>> => UNCHANGED <<pc, loc, logs>>)]_vars
    /\ [](NoDestination =>
             /\ sink = {}
             /\ \A t \in Tasks : pc[t] \in {"idle", "guard", "skipped", "stat", "poll",
                                              "classify", "ret", "done"})

\* a file that arrived and settled was classified and found no rule; the
\* dispatch is over and the file is in place
UnmatchedNoEffectWitness ==
    \E t \in EvTasks :
        /\ pc[t] = "done"
        /\ Base(loc[t].path) = fA
        /\ cfg.Rules = <<RuleZip>>
        /\ logs[t] = <<"no rule matched">>
        /\ Join(WatchDir, fA) \in DOMAIN files
        /\ data[files[Join(WatchDir, fA)]].len = MaxSize

(***************************************************************************)
(* The end of the process (main.go:528-580).                               *)
(***************************************************************************)
\* C28: the process ends only on a fatal startup condition, before any file
\* is dispatched and before watching begins: when the process has ended, no
\* dispatch was ever started and the watcher was never added
FatalOnlyAtStartup ==
    exited => (~watching /\ \A t \in Tasks : pc[t] = "idle")

(***************************************************************************)
(* The log lines of a dispatch (main.go:424-526).                          *)
(***************************************************************************)
\* dispatch t has returned
Ended(t) == pc[t] \in {"skipped", "done"}

\* the lines that report a transfer, an upload, and every other outcome
TransferLines == {"moved", "copied"}
UploadLines == {"webdav uploaded", "webdav upload failed"}
LocalLines ==
    {"skip (ignored ext)", "skip (not stable): timeout", "skip (not stable): stat",
     "no rule matched", "empty dest", "dest mkdir failed", "skip (already exists)",
     "deleted (duplicate)", "failed to delete duplicate source", "move failed",
     "copy failed"}

\* the dispatch of t is to upload what it transferred (main.go:513)
UploadDue(t) == RuleOf(t).WebDAVUpload /\ cfg.Dav

\* every dispatch that has returned has logged exactly one line
OneOutcomeRecord == \A t \in Tasks : Ended(t) => Len(logs[t]) = 1

\* C29: a dispatch that has returned has logged nothing when the guard turned
\* it away or the filter found the path missing or a directory; otherwise it
\* has logged exactly one line for its local outcome, followed, when that
\* outcome is a transfer and the rule has an upload with a sink configured,
\* by exactly one line for the upload
OutcomeRecords ==
    /\ [](\A t \in Tasks :
             Ended(t) =>
                 LET n == Len(logs[t])
                 IN /\ n <= 2
                    /\ pc[t] = "skipped" => n = 0
                    /\ n = 0 => loc[t].rule = 0
                    /\ n >= 1 => logs[t][1] \in TransferLines \cup LocalLines
                    /\ (n >= 1 /\ logs[t][1] \in LocalLines) => n = 1
                    /\ (n >= 1 /\ logs[t][1] \in TransferLines) =>
                           IF UploadDue(t)
                           THEN n = 2 /\ logs[t][2] \in UploadLines
                           ELSE n = 1)
    /\ [][\A t \in Tasks :
             (pc[t] = "stat" /\ pc'[t] = "ret") =>
                 (logs'[t] = <<>> <=>
                      (loc[t].path \notin DOMAIN files \/ data[files[loc[t].path]] = DirNode))]_vars
    /\ [][\A t \in Tasks :
             (pc'[t] # pc[t] /\ pc[t] \notin {"guard", "stat"} /\ pc'[t] = "ret") =>
                 Len(logs'[t]) = Len(logs[t]) + 1]_vars

\* of two dispatches of one path, one was turned away by the guard and has
\* logged nothing, the other has copied and uploaded and has logged two lines
OutcomeRecordsWitness ==
    \E t \in Tasks, u \in Tasks :
        /\ loc[t].path = loc[u].path
        /\ pc[t] = "skipped" /\ logs[t] = <<>>
        /\ pc[u] = "done" /\ logs[u] = <<"copied", "webdav uploaded">>

(***************************************************************************)
(* The settle window of the stability detector (main.go:196-220).          *)
(***************************************************************************)
\* the sample dispatch t takes now finds another size than the previous one
Differs(t) ==
    /\ pc[t] = "poll"
    /\ loc[t].elapsed < Deadline
    /\ loc[t].path \in DOMAIN files
    /\ data[files[loc[t].path]].len # loc[t].lastSize

\* C30: a sample whose size differs from the previous one sets the
\* accumulated duration to zero with the new size as baseline and does not
\* end the polling; a sample of the same size adds one poll interval, no
\* more than the time that passed; the detector returns success only on a
\* sample that repeats the size of the previous one, hence after two equal
\* samples at least, and only when the duration accumulated over the
\* samples since the last change reaches the settle window
ResetOnChange ==
    /\ [][\A t \in Tasks :
             /\ (Differs(t) /\ loc'[t] # loc[t]) =>
                    /\ loc'[t].stableFor = 0
                    /\ loc'[t].lastSize = data[files[loc[t].path]].len
                    /\ pc'[t] = "poll"
             /\ (pc[t] = "poll" /\ pc'[t] = "poll" /\ ~Differs(t)) =>
                    /\ loc'[t].stableFor - loc[t].stableFor \in {0, cfg.PollMillis}
                    /\ loc'[t].stableFor - loc[t].stableFor <= loc'[t].elapsed - loc[t].elapsed
                    /\ loc'[t].lastSize = loc[t].lastSize
             /\ DeclaresStable(t) =>
                    /\ SameAgain(t)
                    /\ loc[t].lastSize >= 0
                    /\ loc[t].elapsed >= Tick(cfg.PollMillis)
                    /\ loc[t].stableFor + cfg.PollMillis >= cfg.SettleMillis]_vars
    /\ [](\A t \in Tasks :
             pc[t] = "poll" =>
                 /\ loc[t].lastSize = -1 <=> loc[t].elapsed = 0
                 /\ loc[t].stableFor + Tick(cfg.PollMillis) <= loc[t].elapsed \/ loc[t].elapsed = 0
                 /\ loc[t].elapsed = 0 => loc[t].stableFor = 0)

\* the size changed during the polling, the duration started again from
\* zero, and the file is about to be declared stable on the equal samples
\* taken since
ResetOnChangeWitness ==
    \E t \in Tasks :
        /\ SameAgain(t) /\ Settled(loc[t]) /\ ~Expired(loc[t])
        /\ cfg.SettleMillis > cfg.PollMillis
        /\ loc[t].stableFor > 0
        /\ loc[t].elapsed >= loc[t].stableFor + 3 * Tick(cfg.PollMillis)

(***************************************************************************)
(* Duplicate detection alone: handleFile at its call of                    *)
(* fileExistsWithSameSize (main.go:469) for every set of names in the      *)
(* destination directory, each of the source's size or of another.         *)
(***************************************************************************)
\* the names fileExistsWithSameSize looks at for the file a.txt, and one
\* beyond
DupNames == {fA} \cup {NumberedName(fA, i) : i \in 2..Ceiling}

\* dispatch t at the duplicate test under rule r; the source has n bytes,
\* the destination directory holds the names of same with n bytes and the
\* names of other with one byte more
AtDupCheck(r, t, n, same, other) ==
    /\ cfg = Config(<<r>>, FALSE, FALSE)
    /\ dirs = {WatchDir, OutDir}
    /\ files = [p \in {Join(WatchDir, fA)} \cup {Join(OutDir, b) : b \in same \cup other} |->
                   IF p.dir = WatchDir THEN SrcInode(fA) ELSE OldInode(p.base)]
    /\ data = [i \in {SrcInode(fA)} \cup {OldInode(b) : b \in same \cup other} |->
                   IF i = SrcInode(fA) THEN Content(i, n)
                   ELSE IF i \in {OldInode(b) : b \in same} THEN Content("old", n)
                   ELSE Content("old", n + 1)]
    /\ entries = <<>>
    /\ pending = 0
    /\ processing = {Join(WatchDir, fA)}
    /\ watching = (t \in EvTasks)
    /\ exited = FALSE
    /\ pc = [u \in Tasks |-> IF u = t THEN "dupcheck" ELSE "idle"]
    /\ loc = [u \in Tasks |-> IF u = t
                              THEN [NoLoc EXCEPT !.path = Join(WatchDir, fA),
                                                 !.skip = (t \in ScanTasks),
                                                 !.rule = 1]
                              ELSE NoLoc]
    /\ wpc = [u \in Tasks |-> "none"]
    /\ done = [u \in Tasks |-> <<>>]
    /\ sink = {}
    /\ logs = [u \in Tasks |-> <<>>]
    /\ rivals = [u \in Tasks |-> {}]

InitDup ==
    \E a \in {"move", "copy"}, t \in {1, 3}, n \in 0..MaxSize,
       same \in SUBSET DupNames, other \in SUBSET DupNames :
        /\ same \cap other = {}
        /\ AtDupCheck(Rule(a, OutDir, TRUE, FALSE), t, n, same, other)

NextDup == \E t \in Tasks : DupCheck(t) \/ DupRemove(t)

SpecDup == InitDup /\ [][NextDup]_vars

\* path p holds a file of the size of the source of dispatch t, above zero
SameSizeAt(t, p) ==
    /\ p \in DOMAIN files
    /\ loc[t].path \in DOMAIN files
    /\ data[files[p]].len = data[files[loc[t].path]].len
    /\ data[files[p]].len > 0

\* C31: the duplicate test finds a duplicate exactly when the destination
\* directory holds, under the source's base name or under any of its
\* numbered variants, a file of the source's size above zero, whether or not
\* the base name and the lower-numbered variants are there
AnyVariantIsDuplicate ==
    [][\A t \in Tasks :
          (pc[t] = "dupcheck" /\ pc'[t] # pc[t]) =>
              LET d == Join(RuleOf(t).Dest, Base(loc[t].path))
              IN (pc'[t] # "resolve") <=>
                     \/ SameSizeAt(t, d)
                     \/ \E k \in 2..(Ceiling - 1) : SameSizeAt(t, Variant(d, k))]_vars

(***************************************************************************)
(* The fallback of the destination naming (main.go:302-308).               *)
(***************************************************************************)
\* the name d and all its numbered variants below the ceiling are occupied
AllTaken(d) ==
    /\ d \in DOMAIN files
    /\ \A k \in 2..(Ceiling - 1) : Variant(d, k) \in DOMAIN files

\* C32: when the plain name and every numbered variant below the ceiling are
\* occupied, the naming still yields a name, the plain name followed by
\* .dup, and the dispatch goes on to its transfer; the .dup name is chosen
\* in no other case
DupFallback ==
    [][\A t \in Tasks :
          (pc[t] = "resolve" /\ StepOf(t)) =>
              LET d == Join(RuleOf(t).Dest, Base(loc[t].path))
              IN /\ AllTaken(d) => loc'[t].dst = DupPath(d)
                 /\ loc'[t].dst = DupPath(d) => AllTaken(d)
                 /\ pc'[t] \in {"mv_rename", "cp_open"}]_vars

\* a.txt and all its numbered variants below the ceiling were occupied, and
\* the moved file is at a.txt.dup
DupFallbackWitness ==
    \E t \in Tasks :
        /\ pc[t] = "mv_ret" /\ ~loc[t].err
        /\ AllTaken(Join(OutDir, fA))
        /\ loc[t].dst = DupPath(Join(OutDir, fA))
        /\ files[loc[t].dst] = SrcInode(fA)

(***************************************************************************)
(* The cleanup of a failed move (main.go:238-264).                         *)
(***************************************************************************)
\* atomicMove of dispatch t returns an error from a step that follows the
\* creation of the temporary file: the copy, the sync, the close or the
\* rename onto the final name
FailsAfterCreate(t) ==
    /\ pc[t] \in {"mv_copy", "mv_sync", "mv_close", "mv_rename2"}
    /\ pc'[t] = "mv_ret"

\* atomicMove of dispatch t returns an error from ensureDir or os.Create
FailsBeforeCreate(t) ==
    /\ pc[t] \in {"mv_mkdir", "mv_create"}
    /\ pc'[t] = "mv_ret"

\* the source of dispatch t is after the step what it was before
SourceUntouched(t) ==
    loc[t].path \in DOMAIN files =>
        /\ loc[t].path \in DOMAIN files'
        /\ files'[loc[t].path] = files[loc[t].path]
        /\ data'[files[loc[t].path]] = data[files[loc[t].path]]

\* a failed step after the creation of the temporary file leaves no file
\* under the temporary name
NoTmpAfterFailure ==
    [][\A t \in Tasks :
          FailsAfterCreate(t) => TmpPath(loc[t].dst) \notin DOMAIN files']_vars

\* C33: in the copy fallback of a move, a failure of ensureDir or of the
\* creation of the temporary file returns the error with no file created or
\* changed; a failure of the copy, the sync, the close or the rename returns
\* the error with the source untouched and with every name of the
\* directories as it was, except that the temporary name is gone when its
\* removal succeeded
TmpCleanup ==
    [][\A t \in Tasks :
          /\ FailsBeforeCreate(t) =>
                 (loc'[t].err /\ UNCHANGED <<files, data>>)
          /\ FailsAfterCreate(t) =>
                 /\ loc'[t].err
                 /\ SourceUntouched(t)
                 /\ \/ files' = files
                    \/ /\ TmpPath(loc[t].dst) \notin DOMAIN files'
                       /\ \A p \in DOMAIN files \ {TmpPath(loc[t].dst)} :
                              p \in DOMAIN files' /\ files'[p] = files[p]
                       /\ DOMAIN files' \subseteq DOMAIN files]_vars

\* the sync of a move has failed and atomicMove has returned the error: the
\* temporary file is gone, the final name, occupied before, still holds the
\* file it held, and the source is in place
TmpCleanupWitness ==
    \E t \in Tasks :
        /\ pc[t] = "mv_ret" /\ loc[t].err
        /\ loc[t].df = NewInode(t)
        /\ data[loc[t].df].whole /\ data[loc[t].df].len > 0
        /\ TmpPath(loc[t].dst) \notin DOMAIN files
        /\ loc[t].dst \in DOMAIN files
        /\ loc[t].path \in DOMAIN files

(***************************************************************************)
(* The auto-create flag (main.go:461-466, 238, 275).                       *)
(***************************************************************************)
\* C34: with the auto-creation of destination directories switched off, no
\* step of a dispatch creates a directory: a destination directory that does
\* not exist stays absent
NoMkdirUnlessAsked ==
    [][~cfg.CreateDestDirs => dirs' = dirs]_vars

(***************************************************************************)
(* The abandoned upload (main.go:369-380).                                 *)
(***************************************************************************)
\* the coordinator of dispatch t has left davUpload
LeftUpload(t) == pc[t] \in {"ret", "done"}

\* C35: the writer goroutine of an upload can always deliver its result,
\* whether or not the coordinator still waits, and ends with that; once the
\* coordinator has left on the timer, a result delivered late stays in the
\* channel, no dispatch reads it and no line is logged for it; and the
\* coordinator that left on the timer releases its path without waiting for
\* the writer
AbandonedWriterEnds ==
    /\ [](\A t \in Tasks :
             /\ wpc[t] \in {"send nil", "send err"} => ENABLED WriterSend(t)
             /\ (pc[t] = "ret" /\ wpc[t] # "none") => ENABLED Release(t))
    /\ [][\A t \in Tasks :
             /\ (wpc[t] \in {"send nil", "send err"} /\ wpc'[t] # wpc[t]) => wpc'[t] = "end"
             /\ LeftUpload(t) => logs'[t] = logs[t]
             /\ (LeftUpload(t) /\ done[t] # <<>>) => done'[t] = done[t]
             /\ (LeftUpload(t) /\ done'[t] # done[t]) =>
                    (done[t] = <<>> /\ wpc[t] # "end" /\ wpc'[t] = "end")]_vars

\* the timer won; the dispatch has logged the failure and released its path;
\* the write completed afterwards, the writer has delivered its result and
\* ended, and the result lies in the channel unread
AbandonedWriterEndsWitness ==
    \E t \in Tasks :
        /\ pc[t] = "done"
        /\ loc[t].path \notin processing
        /\ logs[t] = <<"copied", "webdav upload failed">>
        /\ wpc[t] = "end"
        /\ done[t] = <<FALSE>>
        /\ Base(loc[t].dst) \in sink

====
